---- MODULE Spec2Model ----
(***************************************************************************)
(* MediConnect backend: the prescription redemption ledger                 *)
(* (PrescriptionService), the GP assignment scheduler and the encounter    *)
(* lifecycle (ConsultationService) and the OTP login (AuthService) over    *)
(* the PostgreSQL store of the initial schema.                             *)
(*                                                                         *)
(* Every db.query is one atomic step; a handler that reads the store,      *)
(* decides on what it read and then writes, outside db.transaction, is     *)
(* split at the await, so that other handlers interleave there.  A handler *)
(* whose queries decide nothing on an earlier read (startConsultation,     *)
(* endConsultation, extendConsultation) is one step.  A db.transaction     *)
(* callback is one step: it commits all of its writes or none.             *)
(***************************************************************************)
EXTENDS Integers, Sequences, FiniteSets, Bags, TLC

VARIABLES
    now,                \* the store's clock NOW(), in days
    providers,          \* table providers: id -> row
    consultations,      \* table consultations: id -> row (ids 1..Len)
    assignCall,         \* per consultation: the assignGP call in flight
    notifications,      \* what NotificationService.notifyUser was asked to send
    prescriptions,      \* table prescriptions: id -> row
    prescription_items, \* table prescription_items, in insertion order
    pharmacy_claims,    \* table pharmacy_claims, in insertion order
    audit_events,       \* table audit_events: a bag of rows
    verifyCall,         \* per pharmacy: the verifyPrescriptionQR call in flight
    video_call_events,  \* table video_call_events, in insertion order
    whatsapp_messages,  \* what WhatsAppService delivered, in sending order
    wa_auth_codes,      \* table wa_auth_codes, in insertion order
    users,              \* table users: id -> row (ids 1..Len)
    otpCall,            \* per caller: the requestOTP call in flight
    loginCall,          \* per caller: the verifyOTP call in flight
    pending_index,      \* whether the store has the unique index that the
                        \* ON CONFLICT clause of requestOTP names
    txn,                \* per pool client: the Database.transaction in flight
    views,              \* per pharmacy: the view verifyPrescriptionQR returned
    startReturn,        \* what the latest startConsultation call returned
    sessions            \* the tokens verifyOTP has issued

encVars == <<providers, consultations, assignCall, notifications>>
rxVars  == <<prescriptions, prescription_items, pharmacy_claims, audit_events, verifyCall>>
callVars == <<video_call_events, whatsapp_messages>>
authVars == <<wa_auth_codes, users, otpCall, loginCall, pending_index>>
extraVars == <<txn, views, startReturn, sessions>>
vars    == <<now, providers, consultations, assignCall, notifications,
             prescriptions, prescription_items, pharmacy_claims, audit_events,
             verifyCall, video_call_events, whatsapp_messages, wa_auth_codes,
             users, otpCall, loginCall, pending_index, txn, views,
             startReturn, sessions>>

\* SQL NULL of a nullable column.
NULL == -1

(***************************************************************************)
(* Bounds of the model.                                                    *)
(***************************************************************************)
NPatients == 2
NPharmacies == 2
NProviders == 2
MaxSessions == 2
MaxConsultations == 3
MaxRx == 1
MaxClaims == 3
MaxAudit == 3
MaxLate == 1
MaxMinute == 2
MaxEncounters == 1
MaxVideoEvents == 2
MaxExtends == 2
NPhones == 1
NCallers == 2
MaxCodes == 2
MaxChallenges == 1
MaxFailures == 5
MaxOtpMessages == 1
MaxLogins == 2
NClients == 2
MaxSeqEncounters == 2
MaxLogouts == 1

\* expiresAt.setDate(expiresAt.getDate() + 30)
QR_EXPIRY_DAYS == 30
\* capacity_cap_minutes INTEGER DEFAULT 15
DEFAULT_CAP_MINUTES == 15
\* SET capacity_cap_minutes = capacity_cap_minutes + 10
EXTENSION_MINUTES == 10
\* const expiresAt = new Date(Date.now() + 5 * 60 * 1000)
JWT_EXPIRES_MINUTES == 43200
OTP_TTL_MINUTES == 5
\* existingOTP.rows[0].attempts >= 5
MAX_ATTEMPTS == 5

Patients    == 1..NPatients
Pharmacies  == 1..NPharmacies
ProviderIds == 1..NProviders
RxIds       == 1..MaxRx
\* qr_code_data values: one more than prescriptions, so that some code is
\* always carried by no prescription.
Tokens      == 1..(MaxRx + 1)
\* The instants at which the clock is read: issue time, the expiry instant of
\* a prescription issued at 0, and the days after it.
Instants    == {0} \cup {QR_EXPIRY_DAYS + k : k \in 0..MaxLate}
MedLists    == {<<"amoxicillin">>, <<"amoxicillin", "ibuprofen">>}
DispensedLists == {<<"amoxicillin">>}

\* No verifyPrescriptionQR call of the pharmacy is in flight.
IdleCall == [pc |-> "idle", qr |-> NULL, rx |-> NULL,
             result |-> [valid |-> FALSE, reason |-> "none"]]

\* The callers of AuthService (each awaits one call at a time), the phone
\* numbers they name and the 6-digit codes that Math.random() draws or a
\* caller types.
Callers == 1..NCallers
\* The clients of the connection pool.
Clients == 1..NClients
\* The characters of a provider id the pharmacy is shown, and the length of
\* the ids' text.
DoctorIdLen == 8
UuidLen == 9
Phones  == 1..NPhones
Codes   == 1..MaxCodes

\* No requestOTP call of the caller is in flight.
IdleOtpCall == [pc |-> "idle", phone |-> NULL, otp |-> NULL, expiresAt |-> NULL,
                result |-> "none"]

\* No verifyOTP call of the caller is in flight.
NoOtpRecord == [id |-> NULL, code_hash |-> <<"bcrypt", NULL>>, ttl_expires_at |-> NULL]
NoLoginResult == [status |-> "none", userId |-> NULL, role |-> "none"]
IdleLoginCall == [pc |-> "idle", phone |-> NULL, code |-> NULL,
                  otpRecord |-> NoOtpRecord, user |-> NULL, result |-> NoLoginResult]

Min(S) == CHOOSE x \in S : \A y \in S : x <= y

\* users.full_name of a row whose name was never set (SQL NULL), and the
\* names patients carry.
NoName == ""
Names == {"Achieng", "Baraka"}

\* Table users of a store in which the patients and the providers of the
\* other tables are registered: user u has phone number u.
RegisteredUsers ==
    [u \in 1..(NPatients + NProviders) |->
        [phone_number |-> u, phone_verified_at |-> 0,
         role |-> IF u <= NPatients THEN "patient" ELSE "gp",
         full_name |-> IF u % 2 = 1 THEN "Achieng" ELSE "Baraka"]]

\* A store and a service in which AuthService has not been called.
NoLogins ==
    /\ wa_auth_codes = <<>>
    /\ users = RegisteredUsers
    /\ otpCall = [k \in Callers |-> IdleOtpCall]
    /\ loginCall = [k \in Callers |-> IdleLoginCall]
    /\ pending_index = FALSE

\* No Database.transaction of the pool client is in flight.
IdleTxn == [pc |-> "idle", op |-> "none", rx |-> NULL, who |-> NULL,
            data |-> <<>>, tok |-> NULL, step |-> 0, patient |-> NULL,
            writes |-> <<>>, issued |-> <<>>, released |-> 0,
            outcome |-> "none"]

\* No view is held by the pharmacy.
NoView == [id |-> NULL, medications |-> <<>>, prescribing_doctor |-> <<>>,
           issue_date |-> NULL]

NoStartReturn == [outcome |-> "none", warning |-> FALSE]

\* A service that has opened no transaction, returned no view, started no
\* consultation and issued no token.
FreshService ==
    /\ txn = [k \in Clients |-> IdleTxn]
    /\ views = [ph \in Pharmacies |-> NoView]
    /\ startReturn = NoStartReturn
    /\ sessions = {}

\* A store in which no video call was started.
NoVideoCalls ==
    /\ video_call_events = <<>>
    /\ whatsapp_messages = <<>>

(***************************************************************************)
(* The clock.                                                              *)
(***************************************************************************)
Tick ==
    /\ \E t \in Instants : t > now /\ now' = t
    /\ UNCHANGED <<extraVars, callVars, authVars, encVars, rxVars>>

(***************************************************************************)
(* ConsultationService: createConsultation and assignGP                    *)
(***************************************************************************)
\* INSERT INTO consultations (patient_id, consultation_type, status,
\* ai_intake_summary) VALUES ($1, 'gp_primary', 'requested', $2).
NewConsultation(patient) ==
    [patient_id |-> patient, provider_id |-> NULL, status |-> "requested",
     started_at |-> NULL, ended_at |-> NULL, duration_minutes |-> NULL,
     consultation_notes |-> NULL,
     capacity_cap_minutes |-> DEFAULT_CAP_MINUTES,
     referral_extension_applied |-> FALSE]

NoAssignCall == [pc |-> "idle", caller |-> "none", chosen |-> NULL, result |-> "none"]

\* createConsultation up to its call of assignGP: the consultation row is
\* inserted by a query of its own, outside any transaction.
CreateConsultation(patient) ==
    /\ Len(consultations) < MaxConsultations
    /\ consultations' = Append(consultations, NewConsultation(patient))
    /\ assignCall' = Append(assignCall,
            [pc |-> "read", caller |-> "createConsultation", chosen |-> NULL,
             result |-> "pending"])
    /\ UNCHANGED <<extraVars, callVars, authVars, now, providers, notifications, rxVars>>

\* assignGP called on a consultation that exists.
AssignGP(c) ==
    /\ c \in DOMAIN consultations
    /\ assignCall[c].pc = "idle"
    /\ assignCall' = [assignCall EXCEPT ![c] =
            [pc |-> "read", caller |-> "assignGP", chosen |-> NULL,
             result |-> "pending"]]
    /\ UNCHANGED <<extraVars, callVars, authVars, now, providers, consultations, notifications, rxVars>>

\* SELECT provider_id, COUNT(*) ... WHERE status IN ('matched', 'active',
\* 'extended') GROUP BY provider_id: the rows counted for one provider.
CountedRows(p) ==
    {c \in DOMAIN consultations :
        /\ consultations[c].provider_id = p
        /\ consultations[c].status \in {"matched", "active", "extended"}}

\* c.active_count after the LEFT JOIN: a provider with no counted row has no
\* group, and the join gives it NULL.
ActiveCount(p) ==
    IF CountedRows(p) = {} THEN NULL ELSE Cardinality(CountedRows(p))

\* The WHERE clause of the query.
AvailableGP ==
    {p \in DOMAIN providers :
        /\ providers[p].provider_type = "gp"
        /\ providers[p].is_active = TRUE
        /\ \/ ActiveCount(p) = NULL
           \/ ActiveCount(p) < providers[p].max_concurrent_sessions}

\* ORDER BY c.active_count ASC NULLS FIRST.
SortsBefore(a, b) == a = NULL \/ (b # NULL /\ a <= b)

\* LIMIT 1: the query names no second sort key, so any row that no other
\* row sorts strictly before can be the first one.
FirstRows ==
    {p \in AvailableGP :
        \A q \in AvailableGP : SortsBefore(ActiveCount(p), ActiveCount(q))}

\* assignGP, the SELECT and the test of its result.
AssignRead(c) ==
    /\ c \in DOMAIN consultations
    /\ assignCall[c].pc = "read"
    /\ IF AvailableGP = {}
       THEN assignCall' = [assignCall EXCEPT ![c] =
                [@ EXCEPT !.pc = "idle", !.result = "AppError 503"]]
       ELSE \E p \in FirstRows :
                assignCall' = [assignCall EXCEPT ![c] =
                    [@ EXCEPT !.pc = "write", !.chosen = p]]
    /\ UNCHANGED <<extraVars, callVars, authVars, now, providers, consultations, notifications, rxVars>>

\* UPDATE consultations SET provider_id = $1, status = 'matched' WHERE id = $2.
AssignedRow(row, p) == [row EXCEPT !.provider_id = p, !.status = "matched"]

\* assignGP, the UPDATE and the notification of the GP; createConsultation
\* then notifies the patient.
AssignWrite(c) ==
    /\ c \in DOMAIN consultations
    /\ assignCall[c].pc = "write"
    /\ consultations' = [consultations EXCEPT ![c] = AssignedRow(@, assignCall[c].chosen)]
    /\ notifications' = notifications
            \cup {[user_id |-> providers[assignCall[c].chosen].user_id,
                   title |-> "New Patient Assigned"]}
            \cup (IF assignCall[c].caller = "createConsultation"
                  THEN {[user_id |-> consultations[c].patient_id,
                         title |-> "Consultation Request Received"]}
                  ELSE {})
    /\ assignCall' = [assignCall EXCEPT ![c] =
            [@ EXCEPT !.pc = "idle", !.result = "resolved"]]
    /\ UNCHANGED <<extraVars, callVars, authVars, now, providers, rxVars>>

ProviderTables ==
    {[p \in ProviderIds |->
        [provider_type |-> f[p].provider_type, is_active |-> f[p].is_active,
         max_concurrent_sessions |-> f[p].max_concurrent_sessions,
         user_id |-> NPatients + p]] :
     f \in [ProviderIds -> [provider_type : {"gp", "specialist"},
                            is_active : BOOLEAN,
                            max_concurrent_sessions : 0..MaxSessions]]}

\* Any table of providers, and no consultation yet.
InitAssign ==
    /\ now = 0
    /\ providers \in ProviderTables
    /\ consultations = <<>>
    /\ assignCall = <<>>
    /\ notifications = {}
    /\ prescriptions = <<>>
    /\ prescription_items = <<>>
    /\ pharmacy_claims = <<>>
    /\ audit_events = EmptyBag
    /\ verifyCall = [ph \in Pharmacies |-> IdleCall]
    /\ NoVideoCalls
    /\ NoLogins
    /\ FreshService

NextAssign ==
    \/ \E patient \in Patients : CreateConsultation(patient)
    \/ \E c \in 1..MaxConsultations : AssignGP(c)
    \/ \E c \in 1..MaxConsultations : AssignRead(c)
    \/ \E c \in 1..MaxConsultations : AssignWrite(c)

SpecAssign == InitAssign /\ [][NextAssign]_vars

(***************************************************************************)
(* ConsultationService: startConsultation, endConsultation and             *)
(* extendConsultation                                                      *)
(***************************************************************************)
\* The clock of the encounter lifecycle, in minutes.
TickMinute ==
    /\ now < MaxMinute
    /\ now' = now + 1
    /\ UNCHANGED <<extraVars, callVars, authVars, encVars, rxVars>>

ConsultationIds == 1..MaxEncounters
Notes == {"notes"}

\* UPDATE consultations SET status = 'active', started_at = NOW()
\* WHERE id = $1 AND provider_id = $2: the row after the statement.
StartedRow(row, p, t) ==
    IF row.provider_id = p
    THEN [row EXCEPT !.status = "active", !.started_at = t]
    ELSE row

\* INSERT INTO video_call_events (consultation_id, channel, started_at).
NewVideoCallEvent(c, t) ==
    [consultation_id |-> c, started_at |-> t, ended_at |-> NULL]

\* The message startConsultation hands to WhatsAppService.sendNotification.
VideoLinkMessage(c, patient) ==
    [to |-> patient, consultation |-> c, body |-> "video call link"]

\* return { consultation: consultation.rows[0], videoCallLink }: what a
\* resolved startConsultation hands to its caller; it has no member that
\* tells whether the notification was delivered.
StartResult == [outcome |-> "resolved", warning |-> FALSE]

\* startConsultation: the UPDATE, the SELECT of the consultation joined with
\* its patient, the notification (which swallows a delivery failure) and the
\* INSERT of the video call event.  On an id no row carries, the UPDATE
\* changes nothing and consultation.rows[0] is undefined: the handler throws
\* before it sends or inserts.
StartConsultation(c, p) ==
    /\ Len(video_call_events) < MaxVideoEvents
    /\ \/ /\ c \notin DOMAIN consultations
          /\ startReturn' = [outcome |-> "TypeError", warning |-> FALSE]
          /\ UNCHANGED <<consultations, video_call_events, whatsapp_messages>>
       \/ /\ c \in DOMAIN consultations
          /\ consultations' = [consultations EXCEPT ![c] = StartedRow(@, p, now)]
          /\ \E delivered \in BOOLEAN :
                whatsapp_messages' =
                    IF delivered
                    THEN Append(whatsapp_messages,
                                VideoLinkMessage(c, consultations[c].patient_id))
                    ELSE whatsapp_messages
          /\ video_call_events' = Append(video_call_events, NewVideoCallEvent(c, now))
          /\ startReturn' = StartResult
    /\ UNCHANGED <<txn, views, sessions, authVars, now, providers, assignCall, notifications, rxVars>>

\* UPDATE consultations SET status = 'completed', ended_at = NOW(),
\* consultation_notes = $2, duration_minutes = EXTRACT(EPOCH FROM (NOW() -
\* started_at)) / 60 WHERE id = $1: the row after the statement.  The
\* difference with a NULL started_at is NULL.
EndedRow(row, notes, t) ==
    [row EXCEPT !.status = "completed", !.ended_at = t,
                !.consultation_notes = notes,
                !.duration_minutes =
                    IF row.started_at = NULL THEN NULL ELSE t - row.started_at]

\* UPDATE video_call_events SET ended_at = NOW()
\* WHERE consultation_id = $1 AND ended_at IS NULL.
EndedEvents(events, c, t) ==
    [i \in DOMAIN events |->
        IF events[i].consultation_id = c /\ events[i].ended_at = NULL
        THEN [events[i] EXCEPT !.ended_at = t]
        ELSE events[i]]

\* endConsultation: both UPDATEs; on an id no row carries they change
\* nothing and result.rows[0] is undefined, so the handler throws.
EndConsultation(c, notes) ==
    /\ \/ /\ c \notin DOMAIN consultations
          /\ UNCHANGED <<consultations, video_call_events>>
       \/ /\ c \in DOMAIN consultations
          /\ consultations' = [consultations EXCEPT ![c] = EndedRow(@, notes, now)]
          /\ video_call_events' = EndedEvents(video_call_events, c, now)
    /\ UNCHANGED <<extraVars, whatsapp_messages, authVars, now, providers, assignCall,
                   notifications, rxVars>>

\* UPDATE consultations SET capacity_cap_minutes = capacity_cap_minutes + 10,
\* referral_extension_applied = true, status = 'extended' WHERE id = $1.
ExtendedRow(row) ==
    [row EXCEPT !.capacity_cap_minutes = @ + EXTENSION_MINUTES,
                !.referral_extension_applied = TRUE,
                !.status = "extended"]

\* extendConsultation: the UPDATE, which matches no row on an unknown id.
ExtendConsultation(c) ==
    /\ \/ /\ c \notin DOMAIN consultations
          /\ UNCHANGED consultations
       \/ /\ c \in DOMAIN consultations
          /\ consultations[c].capacity_cap_minutes
                < DEFAULT_CAP_MINUTES + MaxExtends * EXTENSION_MINUTES
          /\ consultations' = [consultations EXCEPT ![c] = ExtendedRow(@)]
    /\ UNCHANGED <<extraVars, callVars, authVars, now, providers, assignCall,
                   notifications, rxVars>>

\* A store with one active GP and one active specialist, and no consultation.
InitLife ==
    /\ now = 0
    /\ providers = [p \in ProviderIds |->
            [provider_type |-> IF p = 1 THEN "gp" ELSE "specialist",
             is_active |-> TRUE, max_concurrent_sessions |-> MaxSessions,
             user_id |-> NPatients + p]]
    /\ consultations = <<>>
    /\ assignCall = <<>>
    /\ notifications = {}
    /\ prescriptions = <<>>
    /\ prescription_items = <<>>
    /\ pharmacy_claims = <<>>
    /\ audit_events = EmptyBag
    /\ verifyCall = [ph \in Pharmacies |-> IdleCall]
    /\ NoVideoCalls
    /\ NoLogins
    /\ FreshService

NextLife ==
    \/ TickMinute
    \/ \E patient \in Patients :
          Len(consultations) < MaxEncounters /\ CreateConsultation(patient)
    \/ \E c \in ConsultationIds : AssignGP(c)
    \/ \E c \in ConsultationIds : AssignRead(c)
    \/ \E c \in ConsultationIds : AssignWrite(c)
    \/ \E c \in ConsultationIds, p \in ProviderIds : StartConsultation(c, p)
    \/ \E c \in ConsultationIds, notes \in Notes : EndConsultation(c, notes)
    \/ \E c \in ConsultationIds : ExtendConsultation(c)

SpecLife == InitLife /\ [][NextLife]_vars

\* No assignGP call is between its SELECT and its return.
Quiet == \A c \in DOMAIN assignCall : assignCall[c].pc = "idle"

\* The operations of ConsultationService one at a time: a call begins only
\* when no other call is in flight.
NextSeq ==
    \/ \E patient \in Patients :
          Quiet /\ Len(consultations) < MaxSeqEncounters /\ CreateConsultation(patient)
    \/ \E c \in 1..MaxConsultations : Quiet /\ AssignGP(c)
    \/ \E c \in 1..MaxConsultations : AssignRead(c)
    \/ \E c \in 1..MaxConsultations : AssignWrite(c)
    \/ \E c \in 1..MaxConsultations, p \in ProviderIds :
          Quiet /\ StartConsultation(c, p)
    \/ \E c \in 1..MaxConsultations, notes \in Notes :
          Quiet /\ EndConsultation(c, notes)
    \/ \E c \in 1..MaxConsultations : Quiet /\ ExtendConsultation(c)

\* A store with one active GP of capacity 1 and one active specialist, and
\* no consultation.
InitSeq ==
    /\ now = 0
    /\ providers = [p \in ProviderIds |->
            [provider_type |-> IF p = 1 THEN "gp" ELSE "specialist",
             is_active |-> TRUE, max_concurrent_sessions |-> 1,
             user_id |-> NPatients + p]]
    /\ consultations = <<>>
    /\ assignCall = <<>>
    /\ notifications = {}
    /\ prescriptions = <<>>
    /\ prescription_items = <<>>
    /\ pharmacy_claims = <<>>
    /\ audit_events = EmptyBag
    /\ verifyCall = [ph \in Pharmacies |-> IdleCall]
    /\ NoVideoCalls
    /\ NoLogins
    /\ FreshService

SpecSeq == InitSeq /\ [][NextSeq]_vars

(***************************************************************************)
(* Cancellation.  ConsultationService has no operation that cancels: the   *)
(* schema declares the status 'cancelled' and no handler writes it.  The   *)
(* operation below is the one the specification words (section 4.4).       *)
(***************************************************************************)
CancelledRow_Always(row) ==
    [row EXCEPT !.status = "cancelled"]

\* Cancellation is permitted only before active begins; otherwise the call
\* fails with InvalidTransition and the row stays as it is.
CancelledRow(row) ==
    IF row.status \in {"requested", "matched"}
    THEN [row EXCEPT !.status = "cancelled"]
    ELSE row

CancelConsultation(c) ==
    /\ c \in DOMAIN consultations
    /\ consultations' = [consultations EXCEPT ![c] = CancelledRow(@)]
    /\ UNCHANGED <<extraVars, callVars, authVars, now, providers, assignCall,
                   notifications, rxVars>>

NextCancel ==
    \/ NextLife
    \/ \E c \in ConsultationIds : CancelConsultation(c)

SpecCancel == InitLife /\ [][NextCancel]_vars

(***************************************************************************)
(* AuthService: requestOTP and verifyOTP                                   *)
(***************************************************************************)
\* The instants at which the clock is read, in minutes: the request, the
\* expiry instant of a code requested at 0, and the minutes after it.
AuthInstants == {0} \cup {OTP_TTL_MINUTES + k : k \in 0..MaxLate}

TickAuth ==
    /\ \E t \in AuthInstants : t > now /\ now' = t
    /\ UNCHANGED <<extraVars, callVars, authVars, encVars, rxVars>>

\* bcrypt.hash(otp, 10) and bcrypt.compare(code, hash): the hash is not the
\* code, and a code matches exactly the hash made from it.
Hash(code) == <<"bcrypt", code>>
Compare(code, hash) == hash = Hash(code)

\* WHERE phone_number = $1 AND status = 'pending'.
PendingRows(ph) ==
    {i \in DOMAIN wa_auth_codes :
        /\ wa_auth_codes[i].phone_number = ph
        /\ wa_auth_codes[i].status = "pending"}

\* ... AND ttl_expires_at > NOW().
ExistingOTP(ph) ==
    {i \in PendingRows(ph) : wa_auth_codes[i].ttl_expires_at > now}

\* requestOTP up to the test of existingOTP.rows[0]: the code and its expiry
\* are drawn, the pending unexpired rows of the phone are read, and the call
\* throws 429 when the first of them carries 5 attempts or more.
RequestRead(k, ph, otp) ==
    /\ otpCall[k].pc = "idle"
    /\ loginCall[k].pc = "idle"
    /\ \/ /\ \E i \in ExistingOTP(ph) : wa_auth_codes[i].attempts >= MAX_ATTEMPTS
          /\ otpCall' = [otpCall EXCEPT ![k] =
                [pc |-> "returned", phone |-> ph, otp |-> otp, expiresAt |-> NULL,
                 result |-> "AppError 429"]]
       \/ /\ \/ ExistingOTP(ph) = {}
             \/ \E i \in ExistingOTP(ph) : wa_auth_codes[i].attempts < MAX_ATTEMPTS
          /\ otpCall' = [otpCall EXCEPT ![k] =
                [pc |-> "insert", phone |-> ph, otp |-> otp,
                 expiresAt |-> now + OTP_TTL_MINUTES, result |-> "pending"]]
    /\ UNCHANGED <<extraVars, callVars, wa_auth_codes, users, loginCall, pending_index,
                   now, encVars, rxVars>>

\* VALUES ($1, $2, $3, 'pending'), with the defaults of the other columns.
NewAuthCode(ph, hash, ttl) ==
    [phone_number |-> ph, code_hash |-> hash, attempts |-> 0,
     status |-> "pending", wa_message_id |-> NULL, ttl_expires_at |-> ttl]

UpsertedCodes_InsertOnly(rows, ph, hash, ttl) ==
    Append(rows, NewAuthCode(ph, hash, ttl))

\* INSERT ... ON CONFLICT (phone_number) WHERE status = 'pending' DO UPDATE
\* SET code_hash = $2, ttl_expires_at = $3, attempts = 0, on a table that
\* has the unique index the clause names: the table after the statement.
UpsertedCodes(rows, ph, hash, ttl) ==
    IF \E i \in DOMAIN rows : rows[i].phone_number = ph /\ rows[i].status = "pending"
    THEN [i \in DOMAIN rows |->
            IF rows[i].phone_number = ph /\ rows[i].status = "pending"
            THEN [rows[i] EXCEPT !.code_hash = hash, !.ttl_expires_at = ttl,
                                 !.attempts = 0]
            ELSE rows[i]]
    ELSE Append(rows, NewAuthCode(ph, hash, ttl))

\* requestOTP, the INSERT.  The schema creates no unique index on
\* wa_auth_codes (phone_number) WHERE status = 'pending'; on a store without
\* one the statement is rejected (no unique or exclusion constraint matches
\* the ON CONFLICT specification) and the handler rethrows.
RequestInsert(k) ==
    /\ otpCall[k].pc = "insert"
    /\ \/ /\ ~pending_index
          /\ otpCall' = [otpCall EXCEPT ![k] =
                [@ EXCEPT !.pc = "returned", !.result = "error 42P10"]]
          /\ UNCHANGED wa_auth_codes
       \/ /\ pending_index
          /\ PendingRows(otpCall[k].phone) # {} \/ Len(wa_auth_codes) < MaxChallenges
          /\ wa_auth_codes' = UpsertedCodes(wa_auth_codes, otpCall[k].phone,
                                            Hash(otpCall[k].otp), otpCall[k].expiresAt)
          /\ otpCall' = [otpCall EXCEPT ![k] = [@ EXCEPT !.pc = "send"]]
    /\ UNCHANGED <<extraVars, callVars, users, loginCall, pending_index, now, encVars, rxVars>>

\* The template message WhatsAppService.sendOTP posts.
OtpMessage(ph, otp) == [to |-> ph, otp |-> otp]

\* UPDATE wa_auth_codes SET wa_message_id = $1
\* WHERE phone_number = $2 AND status = 'pending'.
WithMessageId(rows, ph, messageId) ==
    [i \in DOMAIN rows |->
        IF rows[i].phone_number = ph /\ rows[i].status = "pending"
        THEN [rows[i] EXCEPT !.wa_message_id = messageId]
        ELSE rows[i]]

\* requestOTP, the delivery and the UPDATE of the message id: sendOTP
\* returns the id of the message or throws 503, and the stored code stays.
RequestSend(k) ==
    /\ otpCall[k].pc = "send"
    /\ \/ /\ Len(whatsapp_messages) < MaxOtpMessages
          /\ whatsapp_messages' = Append(whatsapp_messages,
                    OtpMessage(otpCall[k].phone, otpCall[k].otp))
          /\ wa_auth_codes' = WithMessageId(wa_auth_codes, otpCall[k].phone,
                                            Len(whatsapp_messages) + 1)
          /\ otpCall' = [otpCall EXCEPT ![k] =
                [@ EXCEPT !.pc = "returned", !.result = "resolved"]]
       \/ /\ otpCall' = [otpCall EXCEPT ![k] =
                [@ EXCEPT !.pc = "returned", !.result = "AppError 503"]]
          /\ UNCHANGED <<whatsapp_messages, wa_auth_codes>>
    /\ UNCHANGED <<extraVars, video_call_events, users, loginCall, pending_index, now,
                   encVars, rxVars>>

\* The caller has the outcome of requestOTP.
RequestReturn(k) ==
    /\ otpCall[k].pc = "returned"
    /\ otpCall' = [otpCall EXCEPT ![k] = IdleOtpCall]
    /\ UNCHANGED <<extraVars, callVars, wa_auth_codes, users, loginCall, pending_index,
                   now, encVars, rxVars>>

\* verifyOTP, the SELECT of the pending rows of the phone: 404 when there is
\* none, otherwise otpRecord is the first row.
VerifyOtpRead(k, ph, code) ==
    /\ loginCall[k].pc = "idle"
    /\ otpCall[k].pc = "idle"
    /\ IF PendingRows(ph) = {}
       THEN loginCall' = [loginCall EXCEPT ![k] =
                [IdleLoginCall EXCEPT !.pc = "returned", !.phone = ph, !.code = code,
                                      !.result.status = "AppError 404"]]
       ELSE \E i \in PendingRows(ph) :
                loginCall' = [loginCall EXCEPT ![k] =
                    [IdleLoginCall EXCEPT !.pc = "decide", !.phone = ph, !.code = code,
                        !.otpRecord = [id |-> i,
                                       code_hash |-> wa_auth_codes[i].code_hash,
                                       ttl_expires_at |-> wa_auth_codes[i].ttl_expires_at]]]
    /\ UNCHANGED <<extraVars, callVars, wa_auth_codes, users, otpCall, pending_index,
                   now, encVars, rxVars>>

\* The tests of verifyOTP on otpRecord, in the order of the code: the expiry
\* against the clock, then the comparison of the code with the hash.  The
\* attempts the row carries are not looked at.
VerifyOutcomeOtp(rec, code, attempts, t) ==
    IF t > rec.ttl_expires_at THEN "expired"
    ELSE IF ~Compare(code, rec.code_hash) THEN "invalid"
    ELSE "verified"

\* verifyOTP, the tests and the UPDATE by id that follows each outcome.
VerifyOtpDecide(k) ==
    /\ loginCall[k].pc = "decide"
    /\ LET rec == loginCall[k].otpRecord
           outcome == VerifyOutcomeOtp(rec, loginCall[k].code,
                                       wa_auth_codes[rec.id].attempts, now)
       IN  CASE outcome = "expired" ->
                /\ wa_auth_codes' = [wa_auth_codes EXCEPT ![rec.id].status = "expired"]
                /\ loginCall' = [loginCall EXCEPT ![k] =
                        [@ EXCEPT !.pc = "returned",
                                  !.result.status = "AppError 401 expired"]]
             [] outcome = "invalid" ->
                /\ wa_auth_codes[rec.id].attempts < MaxFailures
                /\ wa_auth_codes' = [wa_auth_codes EXCEPT ![rec.id].attempts = @ + 1]
                /\ loginCall' = [loginCall EXCEPT ![k] =
                        [@ EXCEPT !.pc = "returned",
                                  !.result.status = "AppError 401 invalid"]]
             [] OTHER ->
                /\ wa_auth_codes' = [wa_auth_codes EXCEPT ![rec.id].status = "verified"]
                /\ loginCall' = [loginCall EXCEPT ![k] = [@ EXCEPT !.pc = "user"]]
    /\ UNCHANGED <<extraVars, callVars, users, otpCall, pending_index, now, encVars, rxVars>>

\* SELECT * FROM users WHERE phone_number = $1.
UsersOf(ph) == {u \in DOMAIN users : users[u].phone_number = ph}

\* verifyOTP, the SELECT of the user of the phone.
VerifyOtpUser(k) ==
    /\ loginCall[k].pc = "user"
    /\ IF UsersOf(loginCall[k].phone) = {}
       THEN loginCall' = [loginCall EXCEPT ![k] = [@ EXCEPT !.pc = "login"]]
       ELSE \E u \in UsersOf(loginCall[k].phone) :
                loginCall' = [loginCall EXCEPT ![k] =
                    [@ EXCEPT !.pc = "login", !.user = u]]
    /\ UNCHANGED <<extraVars, callVars, wa_auth_codes, users, otpCall, pending_index,
                   now, encVars, rxVars>>

\* INSERT INTO users (phone_number, phone_verified_at, role)
\* VALUES ($1, NOW(), 'patient').
NewUser(ph, t) ==
    [phone_number |-> ph, phone_verified_at |-> t, role |-> "patient",
     full_name |-> NoName]

\* INSERT INTO audit_events ... VALUES ($1, 'auth.login', 'user', $1, $2).
LoginAuditRow(user) ==
    [user_id |-> user, event_type |-> "auth.login",
     resource_type |-> "user", resource_id |-> user]

\* jwt.sign(payload, secret, { expiresIn: '30d' }) at instant t: the payload
\* { userId, role, sessionId: crypto.randomUUID() } with the instants of
\* issue and of expiry.  The session id is one no token carries yet.
SignedToken(id, role, t) ==
    [userId |-> id, role |-> role, sessionId |-> Cardinality(sessions) + 1,
     iat |-> t, exp |-> t + JWT_EXPIRES_MINUTES]

\* verifyOTP from the user row on: the INSERT of a new user (rejected by
\* UNIQUE (phone_number) when the phone has got a row meanwhile) or the
\* UPDATE of phone_verified_at, the token and the audit row.
VerifyOtpLogin(k) ==
    /\ loginCall[k].pc = "login"
    /\ LET ph == loginCall[k].phone
           u  == loginCall[k].user
       IN  IF u = NULL /\ UsersOf(ph) # {}
           THEN /\ loginCall' = [loginCall EXCEPT ![k] =
                        [@ EXCEPT !.pc = "returned", !.result.status = "error 23505"]]
                /\ UNCHANGED <<users, audit_events, sessions>>
           ELSE /\ BagCardinality(audit_events) < MaxLogins
                /\ users' = IF u = NULL
                            THEN Append(users, NewUser(ph, now))
                            ELSE [users EXCEPT ![u].phone_verified_at = now]
                /\ LET id == IF u = NULL THEN Len(users) + 1 ELSE u
                   IN  /\ audit_events' = audit_events (+) SetToBag({LoginAuditRow(id)})
                       /\ loginCall' = [loginCall EXCEPT ![k] =
                            [@ EXCEPT !.pc = "returned",
                                      !.result = [status |-> "token", userId |-> id,
                                                  role |-> users'[id].role]]]
                       /\ sessions' = sessions \cup {SignedToken(id, users'[id].role, now)}
    /\ UNCHANGED <<txn, views, startReturn, callVars, wa_auth_codes, otpCall, pending_index, now,
                   providers, consultations, assignCall, notifications,
                   prescriptions, prescription_items, pharmacy_claims, verifyCall>>

\* The caller has the outcome of verifyOTP.
VerifyOtpReturn(k) ==
    /\ loginCall[k].pc = "returned"
    /\ loginCall' = [loginCall EXCEPT ![k] = IdleLoginCall]
    /\ UNCHANGED <<extraVars, callVars, wa_auth_codes, users, otpCall, pending_index,
                   now, encVars, rxVars>>

\* The users tables in which each phone has no row, or one row with a role.
UserTables ==
    {<<>>} \cup {<<[phone_number |-> ph, phone_verified_at |-> NULL, role |-> r,
                     full_name |-> NoName]>> :
                    ph \in Phones, r \in {"patient", "gp"}}

\* A store without codes, on which the unique index that requestOTP needs
\* was created or not.
InitAuth ==
    /\ now = 0
    /\ providers = [p \in {} |-> 0]
    /\ consultations = <<>>
    /\ assignCall = <<>>
    /\ notifications = {}
    /\ prescriptions = <<>>
    /\ prescription_items = <<>>
    /\ pharmacy_claims = <<>>
    /\ audit_events = EmptyBag
    /\ verifyCall = [ph \in Pharmacies |-> IdleCall]
    /\ NoVideoCalls
    /\ wa_auth_codes = <<>>
    /\ users \in UserTables
    /\ otpCall = [k \in Callers |-> IdleOtpCall]
    /\ loginCall = [k \in Callers |-> IdleLoginCall]
    /\ pending_index \in BOOLEAN
    /\ FreshService

NextAuth ==
    \/ TickAuth
    \/ \E k \in Callers, ph \in Phones, otp \in Codes : RequestRead(k, ph, otp)
    \/ \E k \in Callers : RequestInsert(k)
    \/ \E k \in Callers : RequestSend(k)
    \/ \E k \in Callers : RequestReturn(k)
    \/ \E k \in Callers, ph \in Phones, code \in Codes : VerifyOtpRead(k, ph, code)
    \/ \E k \in Callers : VerifyOtpDecide(k)
    \/ \E k \in Callers : VerifyOtpUser(k)
    \/ \E k \in Callers : VerifyOtpLogin(k)
    \/ \E k \in Callers : VerifyOtpReturn(k)

SpecAuth == InitAuth /\ [][NextAuth]_vars

\* What a failed verifyToken throws: AppError('Invalid or expired token', 401).
InvalidToken == [status |-> "AppError 401", userId |-> NULL, role |-> "none",
                 sessionId |-> NULL]

\* The payload a successful verifyToken returns.
Payload(token) ==
    [status |-> "payload", userId |-> token.userId, role |-> token.role,
     sessionId |-> token.sessionId]

\* INSERT INTO audit_events ... VALUES ($1, 'auth.logout', 'user', $1,
\* { timestamp: new Date() }).
LogoutAuditRow(user, t) ==
    [user_id |-> user, event_type |-> "auth.logout",
     resource_type |-> "user", resource_id |-> user, timestamp |-> t]

\* The logout rows of the audit log.
Logouts == {e \in BagToSet(audit_events) : e.event_type = "auth.logout"}

VerifyToken_Blocklist(token, t) ==
    IF t < token.exp
       /\ ~\E e \in Logouts : e.user_id = token.userId /\ e.timestamp >= token.iat
    THEN Payload(token)
    ELSE InvalidToken

\* verifyToken(token) at instant t for a token this service signed:
\* jwt.verify accepts it until its expiry, and reads nothing else.
VerifyToken(token, t) ==
    IF t < token.exp THEN Payload(token) ELSE InvalidToken

\* POST /logout of an authenticated user: authService.logout(userId).
Logout(user) ==
    /\ user \in DOMAIN users
    /\ Cardinality(Logouts) < MaxLogouts
    /\ audit_events' = audit_events (+) SetToBag({LogoutAuditRow(user, now)})
    /\ UNCHANGED <<extraVars, callVars, authVars, now, encVars, prescriptions,
                   prescription_items, pharmacy_claims, verifyCall>>

\* The instants of AuthService and the same instants one token lifetime on.
SessionInstants == AuthInstants \cup {JWT_EXPIRES_MINUTES + t : t \in AuthInstants}

TickSession ==
    /\ \E t \in SessionInstants : t > now /\ now' = t
    /\ UNCHANGED <<extraVars, callVars, authVars, encVars, rxVars>>

\* One caller logs in and out while tokens age.
NextSession ==
    \/ TickSession
    \/ \E ph \in Phones, otp \in Codes : RequestRead(Min(Callers), ph, otp)
    \/ RequestInsert(Min(Callers))
    \/ RequestSend(Min(Callers))
    \/ RequestReturn(Min(Callers))
    \/ \E ph \in Phones, code \in Codes : VerifyOtpRead(Min(Callers), ph, code)
    \/ VerifyOtpDecide(Min(Callers))
    \/ VerifyOtpUser(Min(Callers))
    \/ VerifyOtpLogin(Min(Callers))
    \/ VerifyOtpReturn(Min(Callers))
    \/ \E user \in 1..MaxLogins : Logout(user)

SpecSession == InitAuth /\ [][NextSession]_vars


(***************************************************************************)
(* PrescriptionService                                                     *)
(***************************************************************************)
AuditRow(user, type, resource) ==
    [user_id |-> user, event_type |-> type,
     resource_type |-> "prescription", resource_id |-> resource]

AuditCount(type, resource) ==
    LET rows == {e \in BagToSet(audit_events) :
                    e.event_type = type /\ e.resource_id = resource}
        Sum[S \in SUBSET rows] ==
            IF S = {} THEN 0
            ELSE LET e == CHOOSE x \in S : TRUE
                 IN  CopiesIn(e, audit_events) + Sum[S \ {e}]
    IN  Sum[rows]

\* INSERT INTO prescriptions ... RETURNING *: the columns the insert names
\* and the defaults of the schema for the others.
NewPrescription(cid, prov, meds, tok) ==
    [consultation_id         |-> cid,
     prescribing_provider_id |-> prov,
     patient_id              |-> consultations[cid].patient_id,
     prescription_data       |-> meds,
     qr_code_data            |-> tok,
     qr_enabled              |-> TRUE,
     pdf_url                 |-> NULL,
     pdf_downloaded_at       |-> NULL,
     status                  |-> "active",
     fulfilled_at            |-> NULL,
     fulfilling_pharmacy_id  |-> NULL,
     expires_at              |-> now + QR_EXPIRY_DAYS,
     created_at              |-> now]

ItemRows(rx, meds) ==
    [i \in 1..Len(meds) |-> [prescription_id |-> rx, drug_name |-> meds[i]]]

UsedTokens == {prescriptions[r].qr_code_data : r \in DOMAIN prescriptions}

\* createPrescription: one transaction.  The id is the next free one, the
\* code is random and UNIQUE: any code no prescription carries yet.
CreatePrescription(cid, prov, meds, tok) ==
    /\ Len(prescriptions) < MaxRx
    /\ BagCardinality(audit_events) < MaxAudit
    /\ cid \in DOMAIN consultations          \* else AppError 404, rolled back
    /\ prov \in DOMAIN providers             \* foreign key of the insert
    /\ tok \notin UsedTokens
    /\ LET rx == Len(prescriptions) + 1
       IN  /\ prescriptions' = Append(prescriptions, NewPrescription(cid, prov, meds, tok))
           /\ prescription_items' = prescription_items \o ItemRows(rx, meds)
           /\ audit_events' = audit_events (+)
                SetToBag({AuditRow(consultations[cid].patient_id,
                                   "prescription.created", rx)})
    /\ UNCHANGED <<extraVars, callVars, authVars, now, encVars, pharmacy_claims, verifyCall>>

\* The rows of SELECT ... WHERE p.qr_code_data = $1.
RowsByQR(q) == {r \in DOMAIN prescriptions : prescriptions[r].qr_code_data = q}

\* VerifyOutcome with the expiry tested before the flag.
VerifyOutcome_ExpiryFirst(p, t) ==
    IF t > p.expires_at THEN [valid |-> FALSE, reason |-> "expired"]
    ELSE IF ~p.qr_enabled THEN [valid |-> FALSE, reason |-> "pdf_downloaded"]
    ELSE IF p.status = "fulfilled" THEN [valid |-> FALSE, reason |-> "already_used"]
    ELSE [valid |-> TRUE, reason |-> "none"]

\* The checks of verifyPrescriptionQR on the row found, in the code's order.
VerifyOutcome(p, t) ==
    IF ~p.qr_enabled THEN [valid |-> FALSE, reason |-> "pdf_downloaded"]
    ELSE IF t > p.expires_at THEN [valid |-> FALSE, reason |-> "expired"]
    ELSE IF p.status = "fulfilled" THEN [valid |-> FALSE, reason |-> "already_used"]
    ELSE [valid |-> TRUE, reason |-> "none"]

\* verifyPrescriptionQR up to its insert: the SELECT by code, the checks and
\* the SELECT of the items (items never change once written).
VerifyRead(ph, q) ==
    /\ verifyCall[ph].pc = "idle"
    /\ LET rows == RowsByQR(q)
       IN  IF rows = {}
           THEN verifyCall' = [verifyCall EXCEPT ![ph] =
                    [pc |-> "returned", qr |-> q, rx |-> NULL,
                     result |-> [valid |-> FALSE, reason |-> "invalid_code"]]]
           ELSE LET rx  == CHOOSE r \in rows : TRUE
                    out == VerifyOutcome(prescriptions[rx], now)
                IN  verifyCall' = [verifyCall EXCEPT ![ph] =
                        [pc |-> IF out.valid THEN "insert" ELSE "returned",
                         qr |-> q, rx |-> rx, result |-> out]]
    /\ UNCHANGED <<extraVars, callVars, authVars, now, encVars, prescriptions, prescription_items,
                   pharmacy_claims, audit_events>>

\* The text of the UUID of provider p: providers 1 and 2 agree on the first
\* group of hexadecimal digits, 3 and 4 on another, and each differs from
\* every other provider after it.
UuidText(p) ==
    [i \in 1..UuidLen |->
        IF i <= DoctorIdLen THEN (IF ((p + 1) \div 2) % 2 = 1 THEN "a" ELSE "b")
        ELSE (IF p % 2 = 1 THEN "c" ELSE "d")]

\* s.substring(0, n).
Substring(s, n) == SubSeq(s, 1, IF n < Len(s) THEN n ELSE Len(s))

\* SELECT p.*, u.full_name as patient_name FROM prescriptions p JOIN users u
\* ON p.patient_id = u.id: the row of prescription rx in tables U and P.
JoinedRow(U, P, rx) ==
    [id |-> rx, patient_name |-> U[P[rx].patient_id].full_name,
     patient_id |-> P[rx].patient_id,
     prescribing_provider_id |-> P[rx].prescribing_provider_id,
     created_at |-> P[rx].created_at]

\* SELECT drug_name, ... FROM prescription_items WHERE prescription_id = $1.
SelectedItems(I, rx) ==
    LET rows == SelectSeq(I, LAMBDA i : i.prescription_id = rx)
    IN  [n \in DOMAIN rows |-> [drug_name |-> rows[n].drug_name]]

RedeemView_FullIdentity(U, P, I, rx) ==
    LET prescriptionData == JoinedRow(U, P, rx)
    IN  [id |-> prescriptionData.id,
         medications |-> SelectedItems(I, rx),
         prescribing_doctor |->
            <<"Dr. ">> \o UuidText(prescriptionData.prescribing_provider_id),
         issue_date |-> prescriptionData.created_at]

\* The prescription member of what verifyPrescriptionQR returns with
\* valid: true, from tables U, P and I.
RedeemView(U, P, I, rx) ==
    LET prescriptionData == JoinedRow(U, P, rx)
    IN  [id |-> prescriptionData.id,
         medications |-> SelectedItems(I, rx),
         prescribing_doctor |->
            <<"Dr. ">> \o Substring(UuidText(prescriptionData.prescribing_provider_id),
                                    DoctorIdLen),
         issue_date |-> prescriptionData.created_at]

NewClaim_Dispensed(rx, ph) ==
    [prescription_id |-> rx, pharmacy_id |-> ph, status |-> "dispensed",
     dispensed_items |-> <<>>, claimed_at |-> now, created_at |-> now]

\* INSERT INTO pharmacy_claims (prescription_id, pharmacy_id, status).
NewClaim(rx, ph) ==
    [prescription_id |-> rx, pharmacy_id |-> ph, status |-> "ready",
     dispensed_items |-> <<>>, claimed_at |-> now, created_at |-> now]

VerifyInsert(ph) ==
    /\ verifyCall[ph].pc = "insert"
    /\ Len(pharmacy_claims) < MaxClaims
    /\ pharmacy_claims' = Append(pharmacy_claims, NewClaim(verifyCall[ph].rx, ph))
    /\ verifyCall' = [verifyCall EXCEPT ![ph].pc = "returned"]
    /\ views' = [views EXCEPT ![ph] =
            RedeemView(users, prescriptions, prescription_items, verifyCall[ph].rx)]
    /\ UNCHANGED <<txn, startReturn, sessions, callVars, authVars, now, encVars, prescriptions, prescription_items, audit_events>>

\* The pharmacy takes the answer; its next call may start.
VerifyReturn(ph) ==
    /\ verifyCall[ph].pc = "returned"
    /\ verifyCall' = [verifyCall EXCEPT ![ph] = IdleCall]
    /\ views' = [views EXCEPT ![ph] = NoView]
    /\ UNCHANGED <<txn, startReturn, sessions, callVars, authVars, now, encVars, prescriptions, prescription_items,
                   pharmacy_claims, audit_events>>

\* DownloadedRow with the flag flipped instead of cleared.
DownloadedRow_Toggle(p, url, t) ==
    [p EXCEPT !.qr_enabled = ~p.qr_enabled, !.pdf_url = url, !.pdf_downloaded_at = t]

\* DownloadedRow with the document recorded and the flag left as it was.
DownloadedRow_KeepsQR(p, url, t) ==
    [p EXCEPT !.pdf_url = url, !.pdf_downloaded_at = t]

\* UPDATE prescriptions SET qr_enabled = false, pdf_url, pdf_downloaded_at.
DownloadedRow(p, url, t) ==
    [p EXCEPT !.qr_enabled = FALSE, !.pdf_url = url, !.pdf_downloaded_at = t]

\* downloadPrescriptionPDF: one transaction.  No row for (id, patient) is
\* AppError 404; a failure of the renderer or of the upload rolls back.
DownloadPrescriptionPDF(rx, user) ==
    /\ BagCardinality(audit_events) < MaxAudit
    /\ \/ /\ rx \in DOMAIN prescriptions
          /\ prescriptions[rx].patient_id = user
          /\ prescriptions' = [prescriptions EXCEPT ![rx] = DownloadedRow(@, rx, now)]
          /\ audit_events' = audit_events (+)
                SetToBag({AuditRow(user, "prescription.pdf_downloaded", rx)})
       \/ /\ UNCHANGED <<prescriptions, audit_events>>
    /\ UNCHANGED <<extraVars, callVars, authVars, now, encVars, prescription_items, pharmacy_claims, verifyCall>>

\* UPDATE pharmacy_claims SET status = 'dispensed', dispensed_items,
\* created_at WHERE prescription_id = $2 AND pharmacy_id = $3.
DispensedClaim(c, rx, ph, items, t) ==
    IF c.prescription_id = rx /\ c.pharmacy_id = ph
    THEN [c EXCEPT !.status = "dispensed", !.dispensed_items = items, !.created_at = t]
    ELSE c

\* UPDATE prescriptions SET status = 'fulfilled', fulfilled_at,
\* fulfilling_pharmacy_id WHERE id = $2.
FulfilledRow(p, ph, t) ==
    [p EXCEPT !.status = "fulfilled", !.fulfilled_at = t, !.fulfilling_pharmacy_id = ph]

\* fulfillPrescription: one transaction of two updates and the audit insert.
\* An id with no row updates nothing and is still logged; a store failure
\* rolls everything back.
FulfillPrescription(rx, ph, items) ==
    /\ BagCardinality(audit_events) < MaxAudit
    /\ \/ /\ pharmacy_claims' =
                [i \in DOMAIN pharmacy_claims |->
                    DispensedClaim(pharmacy_claims[i], rx, ph, items, now)]
          /\ prescriptions' =
                [r \in DOMAIN prescriptions |->
                    IF r = rx THEN FulfilledRow(prescriptions[r], ph, now)
                    ELSE prescriptions[r]]
          /\ audit_events' = audit_events (+)
                SetToBag({AuditRow(NULL, "prescription.fulfilled", rx)})
       \/ /\ UNCHANGED <<pharmacy_claims, prescriptions, audit_events>>
    /\ UNCHANGED <<extraVars, callVars, authVars, now, encVars, prescription_items, verifyCall>>

\* A store seeded with one provider and one completed consultation of
\* patient 1, before any prescription exists.
InitRx ==
    /\ now = 0
    /\ providers = [p \in {1} |->
            [provider_type |-> "gp", is_active |-> TRUE,
             max_concurrent_sessions |-> MaxSessions, user_id |-> NPatients + 1]]
    /\ consultations = <<[NewConsultation(1) EXCEPT !.provider_id = 1,
                                                     !.status = "completed"]>>
    /\ assignCall = <<NoAssignCall>>
    /\ notifications = {}
    /\ prescriptions = <<>>
    /\ prescription_items = <<>>
    /\ pharmacy_claims = <<>>
    /\ audit_events = EmptyBag
    /\ verifyCall = [ph \in Pharmacies |-> IdleCall]
    /\ NoVideoCalls
    /\ NoLogins
    /\ FreshService

NextRx ==
    \/ Tick
    \/ \E cid \in 1..MaxConsultations, prov \in ProviderIds, meds \in MedLists,
          tok \in Tokens : CreatePrescription(cid, prov, meds, tok)
    \/ \E ph \in Pharmacies, q \in Tokens : VerifyRead(ph, q)
    \/ \E ph \in Pharmacies : VerifyInsert(ph)
    \/ \E ph \in Pharmacies : VerifyReturn(ph)
    \/ \E rx \in RxIds, user \in Patients : DownloadPrescriptionPDF(rx, user)
    \/ \E rx \in RxIds, ph \in Pharmacies, items \in DispensedLists :
          FulfillPrescription(rx, ph, items)

SpecRx == InitRx /\ [][NextRx]_vars

(***************************************************************************)
(* Database.transaction and the callbacks of PrescriptionService, step by  *)
(* step.  The statements of a unit of work are issued on one pool client;  *)
(* what they write is seen by no other client before COMMIT, so the writes *)
(* are kept with the client and reach the tables at COMMIT, or are dropped *)
(* at ROLLBACK.  CreatePrescription and FulfillPrescription above are the  *)
(* same callbacks seen from the other clients: one step, or none.          *)
(***************************************************************************)
\* The tables a unit of work of PrescriptionService writes.
RxTables ==
    [prescriptions |-> prescriptions, prescription_items |-> prescription_items,
     pharmacy_claims |-> pharmacy_claims, audit_events |-> audit_events]

\* One statement of a callback that writes, with its parameters.
WriteOp(kind, rx, who, data, tok) ==
    [kind |-> kind, rx |-> rx, who |-> who, data |-> data, tok |-> tok]

\* The tables after statement w of a unit of work; rx = NULL names the
\* prescription the unit has inserted (prescription.rows[0].id).
ApplyWrite(T, w) ==
    LET own == Len(T.prescriptions)
    IN  CASE w.kind = "prescriptions.insert" ->
                [T EXCEPT !.prescriptions =
                    Append(@, NewPrescription(w.rx, w.who, w.data, w.tok))]
          [] w.kind = "prescription_items.insert" ->
                [T EXCEPT !.prescription_items = @ \o ItemRows(own, w.data)]
          [] w.kind = "audit_events.insert" ->
                [T EXCEPT !.audit_events = @ (+) SetToBag({
                    AuditRow(w.who, w.tok, IF w.rx = NULL THEN own ELSE w.rx)})]
          [] w.kind = "pharmacy_claims.update" ->
                [T EXCEPT !.pharmacy_claims =
                    [i \in DOMAIN @ |-> DispensedClaim(@[i], w.rx, w.who, w.data, now)]]
          [] w.kind = "prescriptions.download" ->
                [T EXCEPT !.prescriptions =
                    [r \in DOMAIN @ |->
                        IF r = w.rx THEN DownloadedRow(@[r], w.data[1], now) ELSE @[r]]]
          [] OTHER ->
                [T EXCEPT !.prescriptions =
                    [r \in DOMAIN @ |->
                        IF r = w.rx THEN FulfilledRow(@[r], w.who, now) ELSE @[r]]]

RECURSIVE ApplyWrites(_, _)
ApplyWrites(T, ws) ==
    IF ws = <<>> THEN T ELSE ApplyWrites(ApplyWrite(T, Head(ws)), Tail(ws))

AfterCommit_FirstOnly(T, ws) ==
    IF ws = <<>> THEN T ELSE ApplyWrite(T, Head(ws))

\* await client.query('COMMIT'): every write of the unit reaches the tables.
AfterCommit(T, ws) == ApplyWrites(T, ws)

AfterRollback_KeepsFirst(T, ws) ==
    IF ws = <<>> THEN T ELSE ApplyWrite(T, Head(ws))

AfterRollback_Keeps(T, ws) == ApplyWrites(T, ws)

\* await client.query('ROLLBACK'): no write of the unit reaches the tables.
AfterRollback(T, ws) == T

\* The units of work of kind op whose caller has not its answer yet.
OpenUnits(op) == {k \in Clients : txn[k].pc # "idle" /\ txn[k].op = op}

\* createPrescription(consultationId, providerId, prescriptionData) calls
\* db.transaction: pool.connect() gives it client k.
CreateCall(k, cid, prov, meds, tok) ==
    /\ txn[k].pc = "idle"
    /\ Len(prescriptions) + Cardinality(OpenUnits("create")) < MaxRx
    /\ BagCardinality(audit_events)
            + Cardinality(OpenUnits("create") \cup OpenUnits("fulfill")) < MaxAudit
    /\ txn' = [txn EXCEPT ![k] =
            [IdleTxn EXCEPT !.pc = "begin", !.op = "create", !.rx = cid,
                            !.who = prov, !.data = meds, !.tok = tok]]
    /\ UNCHANGED <<views, startReturn, sessions, callVars, authVars, now,
                   encVars, rxVars>>

\* fulfillPrescription(prescriptionId, pharmacyId, dispensedItems) calls
\* db.transaction: pool.connect() gives it client k.
FulfillCall(k, rx, ph, items) ==
    /\ txn[k].pc = "idle"
    /\ BagCardinality(audit_events)
            + Cardinality(OpenUnits("create") \cup OpenUnits("fulfill")) < MaxAudit
    /\ txn' = [txn EXCEPT ![k] =
            [IdleTxn EXCEPT !.pc = "begin", !.op = "fulfill", !.rx = rx,
                            !.who = ph, !.data = items]]
    /\ UNCHANGED <<views, startReturn, sessions, callVars, authVars, now,
                   encVars, rxVars>>

\* await client.query('BEGIN'), which succeeds or raises.
TxBegin(k) ==
    /\ txn[k].pc = "begin"
    /\ \/ txn' = [txn EXCEPT ![k] =
                [@ EXCEPT !.pc = "callback", !.step = 1, !.issued = <<"BEGIN">>]]
       \/ txn' = [txn EXCEPT ![k] =
                [@ EXCEPT !.pc = "rollback", !.issued = <<"BEGIN raised">>,
                          !.outcome = "store error"]]
    /\ UNCHANGED <<views, startReturn, sessions, callVars, authVars, now,
                   encVars, rxVars>>

\* The callback of createPrescription, one statement per step: the SELECT
\* of the consultation (404 when there is none), the INSERT of the
\* prescription (rejected for a provider that is no row of providers or a
\* code that a prescription carries), one INSERT per medication, and the
\* QR image with the INSERT of the audit row.
CreateStep(k) ==
    /\ txn[k].pc = "callback"
    /\ txn[k].op = "create"
    /\ LET u == txn[k]
           n == Len(u.data)
       IN  txn' = [txn EXCEPT ![k] =
            CASE u.step = 1 ->
                    IF u.rx \in DOMAIN consultations
                    THEN [u EXCEPT !.step = 2, !.patient = consultations[u.rx].patient_id]
                    ELSE [u EXCEPT !.pc = "rollback", !.outcome = "AppError 404"]
              [] u.step = 2 ->
                    IF u.who \in DOMAIN providers /\ u.tok \notin UsedTokens
                    THEN [u EXCEPT !.step = 3, !.writes = Append(@,
                            WriteOp("prescriptions.insert", u.rx, u.who, u.data, u.tok))]
                    ELSE [u EXCEPT !.pc = "rollback", !.outcome = "store error"]
              [] u.step \in 3..(n + 2) ->
                    [u EXCEPT !.step = @ + 1, !.writes = Append(@,
                        WriteOp("prescription_items.insert", NULL, NULL,
                                <<u.data[u.step - 2]>>, NULL))]
              [] OTHER ->
                    [u EXCEPT !.pc = "commit", !.writes = Append(@,
                        WriteOp("audit_events.insert", NULL, u.patient, <<>>,
                                "prescription.created"))]]
    /\ UNCHANGED <<views, startReturn, sessions, callVars, authVars, now,
                   encVars, rxVars>>

\* The callback of fulfillPrescription, one statement per step: the UPDATE
\* of the claims, the UPDATE of the prescription, the INSERT of the audit
\* row.
FulfillStep(k) ==
    /\ txn[k].pc = "callback"
    /\ txn[k].op = "fulfill"
    /\ LET u == txn[k]
       IN  txn' = [txn EXCEPT ![k] =
            CASE u.step = 1 ->
                    [u EXCEPT !.step = 2, !.writes = Append(@,
                        WriteOp("pharmacy_claims.update", u.rx, u.who, u.data, NULL))]
              [] u.step = 2 ->
                    [u EXCEPT !.step = 3, !.writes = Append(@,
                        WriteOp("prescriptions.update", u.rx, u.who, <<>>, NULL))]
              [] OTHER ->
                    [u EXCEPT !.pc = "commit", !.writes = Append(@,
                        WriteOp("audit_events.insert", u.rx, NULL, <<>>,
                                "prescription.fulfilled"))]]
    /\ UNCHANGED <<views, startReturn, sessions, callVars, authVars, now,
                   encVars, rxVars>>

\* The statement (or the collaborator) the callback awaits raises: the
\* callback rethrows, and transaction goes to its catch.
TxRaise(k) ==
    /\ txn[k].pc = "callback"
    /\ txn' = [txn EXCEPT ![k] =
            [@ EXCEPT !.pc = "rollback", !.outcome = "store error"]]
    /\ UNCHANGED <<views, startReturn, sessions, callVars, authVars, now,
                   encVars, rxVars>>

\* await client.query('COMMIT') after the callback returned: it commits, or
\* it raises and nothing is committed.
TxCommit(k) ==
    /\ txn[k].pc = "commit"
    /\ \/ LET T == AfterCommit(RxTables, txn[k].writes)
          IN  /\ prescriptions' = T.prescriptions
              /\ prescription_items' = T.prescription_items
              /\ pharmacy_claims' = T.pharmacy_claims
              /\ audit_events' = T.audit_events
              /\ txn' = [txn EXCEPT ![k] =
                    [@ EXCEPT !.pc = "release", !.issued = Append(@, "COMMIT"),
                              !.outcome = "resolved"]]
       \/ /\ txn' = [txn EXCEPT ![k] =
                    [@ EXCEPT !.pc = "rollback", !.issued = Append(@, "COMMIT raised"),
                              !.outcome = "store error"]]
          /\ UNCHANGED <<prescriptions, prescription_items, pharmacy_claims,
                         audit_events>>
    /\ UNCHANGED <<views, startReturn, sessions, callVars, authVars, now,
                   encVars, verifyCall>>

\* The catch of transaction: await client.query('ROLLBACK'), which rolls
\* back or raises (the store then drops the unit with the connection), and
\* the error goes to the caller.
TxRollback(k) ==
    /\ txn[k].pc = "rollback"
    /\ LET T == AfterRollback(RxTables, txn[k].writes)
       IN  /\ prescriptions' = T.prescriptions
           /\ prescription_items' = T.prescription_items
           /\ pharmacy_claims' = T.pharmacy_claims
           /\ audit_events' = T.audit_events
    /\ \E raised \in BOOLEAN :
          txn' = [txn EXCEPT ![k] =
            [@ EXCEPT !.pc = "release", !.writes = <<>>,
                      !.issued = Append(@, IF raised THEN "ROLLBACK raised"
                                                     ELSE "ROLLBACK")]]
    /\ UNCHANGED <<views, startReturn, sessions, callVars, authVars, now,
                   encVars, verifyCall>>

\* A finally that is skipped when ROLLBACK raised.
Released_UnlessRollbackRaised(u) ==
    IF u.issued # <<>> /\ u.issued[Len(u.issued)] = "ROLLBACK raised"
    THEN [u EXCEPT !.pc = "done"]
    ELSE [u EXCEPT !.pc = "done", !.released = @ + 1]

\* client.release() in the finally of transaction: it runs after the
\* return of the try and after the throw of the catch, whichever error
\* that throw carries.
Released(u) == [u EXCEPT !.pc = "done", !.released = @ + 1]

\* The finally of transaction: client.release().
TxRelease(k) ==
    /\ txn[k].pc = "release"
    /\ txn' = [txn EXCEPT ![k] = Released(txn[k])]
    /\ UNCHANGED <<views, startReturn, sessions, callVars, authVars, now,
                   encVars, rxVars>>

\* The caller has the result or the error of transaction.
TxReturn(k) ==
    /\ txn[k].pc = "done"
    /\ txn' = [txn EXCEPT ![k] = IdleTxn]
    /\ UNCHANGED <<views, startReturn, sessions, callVars, authVars, now,
                   encVars, rxVars>>

\* A store with one provider, the completed consultation of patient 1 and a
\* consultation of patient 2 that createConsultation has just inserted.
InitTx ==
    /\ now = 0
    /\ providers = [p \in {1} |->
            [provider_type |-> "gp", is_active |-> TRUE,
             max_concurrent_sessions |-> MaxSessions, user_id |-> NPatients + 1]]
    /\ consultations = <<[NewConsultation(1) EXCEPT !.provider_id = 1,
                                                     !.status = "completed"],
                         NewConsultation(2)>>
    /\ assignCall = <<NoAssignCall,
                      [pc |-> "read", caller |-> "createConsultation",
                       chosen |-> NULL, result |-> "pending"]>>
    /\ notifications = {}
    /\ prescriptions = <<>>
    /\ prescription_items = <<>>
    /\ pharmacy_claims = <<>>
    /\ audit_events = EmptyBag
    /\ verifyCall = [ph \in Pharmacies |-> IdleCall]
    /\ NoVideoCalls
    /\ NoLogins
    /\ FreshService

NextTx ==
    \/ \E k \in Clients, cid \in 1..MaxConsultations, prov \in ProviderIds,
          meds \in {m \in MedLists : Len(m) > 1}, tok \in {Min(Tokens)} :
          CreateCall(k, cid, prov, meds, tok)
    \/ \E k \in Clients, rx \in RxIds, ph \in Pharmacies, items \in DispensedLists :
          FulfillCall(k, rx, ph, items)
    \/ \E k \in Clients : TxBegin(k)
    \/ \E k \in Clients : CreateStep(k)
    \/ \E k \in Clients : FulfillStep(k)
    \/ \E k \in Clients : TxRaise(k)
    \/ \E k \in Clients : TxCommit(k)
    \/ \E k \in Clients : TxRollback(k)
    \/ \E k \in Clients : TxRelease(k)
    \/ \E k \in Clients : TxReturn(k)
    \/ \E ph \in Pharmacies, q \in UsedTokens : VerifyRead(ph, q)
    \/ \E ph \in Pharmacies : VerifyInsert(ph)
    \/ \E ph \in Pharmacies : VerifyReturn(ph)

SpecTx == InitTx /\ [][NextTx]_vars

\* downloadPrescriptionPDF(prescriptionId, userId) calls db.transaction:
\* pool.connect() gives it client k.
DownloadCall(k, rx, user) ==
    /\ txn[k].pc = "idle"
    /\ BagCardinality(audit_events)
            + Cardinality(OpenUnits("download")) < MaxAudit
    /\ txn' = [txn EXCEPT ![k] =
            [IdleTxn EXCEPT !.pc = "begin", !.op = "download", !.rx = rx,
                            !.who = user]]
    /\ UNCHANGED <<views, startReturn, sessions, callVars, authVars, now,
                   encVars, rxVars>>

\* The callback of downloadPrescriptionPDF, one await per step: the SELECT
\* of the prescription of this patient (404 when there is none) with the
\* SELECTs of the provider and of the items, the rendering of the document,
\* its upload (the URL is that of the key prescriptions/<id>.pdf), the
\* UPDATE that clears the flag, and the INSERT of the audit row.  A renderer
\* or an upload that fails is TxRaise at its step.
DownloadStep(k) ==
    /\ txn[k].pc = "callback"
    /\ txn[k].op = "download"
    /\ LET u == txn[k]
       IN  txn' = [txn EXCEPT ![k] =
            CASE u.step = 1 ->
                    IF u.rx \in DOMAIN prescriptions
                       /\ prescriptions[u.rx].patient_id = u.who
                    THEN [u EXCEPT !.step = 2]
                    ELSE [u EXCEPT !.pc = "rollback", !.outcome = "AppError 404"]
              [] u.step = 2 -> [u EXCEPT !.step = 3]
              [] u.step = 3 -> [u EXCEPT !.step = 4, !.data = <<u.rx>>]
              [] u.step = 4 ->
                    [u EXCEPT !.step = 5, !.writes = Append(@,
                        WriteOp("prescriptions.download", u.rx, u.who, u.data, NULL))]
              [] OTHER ->
                    [u EXCEPT !.pc = "commit", !.writes = Append(@,
                        WriteOp("audit_events.insert", u.rx, u.who, <<>>,
                                "prescription.pdf_downloaded"))]]
    /\ UNCHANGED <<views, startReturn, sessions, callVars, authVars, now,
                   encVars, rxVars>>

\* Downloads as units of work on the pool clients, next to the issue of the
\* prescription and the pharmacies' redeem calls.
NextDoc ==
    \/ \E cid \in 1..MaxConsultations, prov \in ProviderIds,
          meds \in {m \in MedLists : Len(m) > 1}, tok \in {Min(Tokens)} :
          CreatePrescription(cid, prov, meds, tok)
    \/ \E k \in Clients, rx \in RxIds, user \in Patients : DownloadCall(k, rx, user)
    \/ \E k \in Clients : TxBegin(k)
    \/ \E k \in Clients : DownloadStep(k)
    \/ \E k \in Clients : TxRaise(k)
    \/ \E k \in Clients : TxCommit(k)
    \/ \E k \in Clients : TxRollback(k)
    \/ \E k \in Clients : TxRelease(k)
    \/ \E k \in Clients : TxReturn(k)
    \/ \E ph \in Pharmacies, q \in UsedTokens : VerifyRead(ph, q)
    \/ \E ph \in Pharmacies : VerifyInsert(ph)
    \/ \E ph \in Pharmacies : VerifyReturn(ph)

SpecDoc == InitRx /\ [][NextDoc]_vars

\* The users tables that differ from RegisteredUsers in the names and the
\* phone numbers of the patients.
NamedUsers ==
    {[u \in DOMAIN RegisteredUsers |->
        IF u <= NPatients
        THEN [RegisteredUsers[u] EXCEPT !.full_name = name[u],
                                        !.phone_number = IF moved[u] THEN u + Len(RegisteredUsers)
                                                          ELSE u]
        ELSE RegisteredUsers[u]] :
     name \in [Patients -> Names], moved \in [Patients -> BOOLEAN]}

\* Stores that differ in the patients' names and in the patient of the
\* completed consultation; both providers exist.
InitView ==
    /\ now = 0
    /\ providers = [p \in ProviderIds |->
            [provider_type |-> "gp", is_active |-> TRUE,
             max_concurrent_sessions |-> MaxSessions, user_id |-> NPatients + p]]
    /\ \E patient \in Patients :
          consultations = <<[NewConsultation(patient) EXCEPT !.provider_id = 1,
                                                             !.status = "completed"]>>
    /\ assignCall = <<NoAssignCall>>
    /\ notifications = {}
    /\ prescriptions = <<>>
    /\ prescription_items = <<>>
    /\ pharmacy_claims = <<>>
    /\ audit_events = EmptyBag
    /\ verifyCall = [ph \in Pharmacies |-> IdleCall]
    /\ NoVideoCalls
    /\ wa_auth_codes = <<>>
    /\ users \in {U \in NamedUsers : \A u \in Patients : U[u].phone_number = u}
    /\ otpCall = [k \in Callers |-> IdleOtpCall]
    /\ loginCall = [k \in Callers |-> IdleLoginCall]
    /\ pending_index = FALSE
    /\ FreshService

NextView ==
    \/ \E cid \in 1..MaxConsultations, prov \in ProviderIds, meds \in MedLists,
          tok \in Tokens : CreatePrescription(cid, prov, meds, tok)
    \/ \E ph \in Pharmacies, q \in Tokens : VerifyRead(ph, q)
    \/ \E ph \in Pharmacies : VerifyInsert(ph)
    \/ \E ph \in Pharmacies : VerifyReturn(ph)
    \/ \E rx \in RxIds, ph \in Pharmacies, items \in DispensedLists :
          FulfillPrescription(rx, ph, items)

SpecView == InitView /\ [][NextView]_vars

(***************************************************************************)
(* Properties of the prescription redemption ledger (under SpecRx).        *)
(***************************************************************************)
ClaimsOf(rx) ==
    {i \in DOMAIN pharmacy_claims : pharmacy_claims[i].prescription_id = rx}

DispensedClaimsOf(rx) ==
    {i \in ClaimsOf(rx) : pharmacy_claims[i].status = "dispensed"}

\* C1: exactly one fulfill call succeeds on a prescription; a fulfill call on
\* a prescription that is already fulfilled fails (AlreadyUsed): it logs no
\* fulfilment and changes neither the prescription's fulfilment nor a claim.
C1_FulfillExactlyOnce ==
    [][\A rx \in DOMAIN prescriptions :
          prescriptions[rx].status = "fulfilled" =>
            /\ AuditCount("prescription.fulfilled", rx)' =
               AuditCount("prescription.fulfilled", rx)
            /\ prescriptions'[rx].fulfilled_at = prescriptions[rx].fulfilled_at
            /\ prescriptions'[rx].fulfilling_pharmacy_id =
               prescriptions[rx].fulfilling_pharmacy_id
            /\ \A i \in ClaimsOf(rx) : pharmacy_claims'[i] = pharmacy_claims[i]]_vars

\* C2: in every reachable state each prescription has at most one claim in
\* status dispensed.
C2_AtMostOneDispensed ==
    \A rx \in DOMAIN prescriptions : Cardinality(DispensedClaimsOf(rx)) <= 1

\* C3: once the document of a prescription has been downloaded, a
\* prescription that is not yet fulfilled never becomes fulfilled and none of
\* its claims becomes dispensed.
C3_DownloadKillsRedemption ==
    [][\A rx \in DOMAIN prescriptions :
          (prescriptions[rx].pdf_downloaded_at # NULL
             /\ prescriptions[rx].status # "fulfilled") =>
            /\ prescriptions'[rx].status # "fulfilled"
            /\ \A i \in ClaimsOf(rx) :
                  pharmacy_claims'[i].status = "dispensed"
                    => pharmacy_claims[i].status = "dispensed"]_vars

\* A verifyPrescriptionQR call of pharmacy ph with code q makes its SELECT in
\* this step, and the code is carried by prescription rx.
VerifyReadsRow(ph, q, rx) ==
    /\ verifyCall[ph].pc = "idle"
    /\ verifyCall'[ph].pc # "idle"
    /\ verifyCall'[ph].qr = q
    /\ rx \in RowsByQR(q)

\* The call of pharmacy ph returns Invalid(reason) from its SELECT step and
\* writes no claim.
ReturnsInvalid(ph, reason) ==
    /\ verifyCall'[ph].pc = "returned"
    /\ verifyCall'[ph].result = [valid |-> FALSE, reason |-> reason]
    /\ pharmacy_claims' = pharmacy_claims

C5_FlagNeverReEnabled ==
    [][\A rx \in DOMAIN prescriptions :
          ~prescriptions[rx].qr_enabled => ~prescriptions'[rx].qr_enabled]_vars

\* C5's case: the flag was cleared by a download and is still false after a
\* fulfill made on a later day.
C5_Witness ==
    \E rx \in DOMAIN prescriptions :
        /\ ~prescriptions[rx].qr_enabled
        /\ prescriptions[rx].pdf_downloaded_at # NULL
        /\ prescriptions[rx].status = "fulfilled"
        /\ prescriptions[rx].fulfilled_at > prescriptions[rx].pdf_downloaded_at

\* A download of rx by its patient commits in this step.
DownloadCommits(rx) ==
    AuditCount("prescription.pdf_downloaded", rx)' >
    AuditCount("prescription.pdf_downloaded", rx)

Load(p) == Cardinality(CountedRows(p))

\* Eligibility as the design states it: an active clinician of the required
\* type whose load is below its capacity.
Eligible ==
    {p \in DOMAIN providers :
        /\ providers[p].provider_type = "gp"
        /\ providers[p].is_active
        /\ Load(p) < providers[p].max_concurrent_sessions}

\* The assignGP call on consultation c makes its SELECT in this step.
AssignReads(c) ==
    /\ c \in DOMAIN consultations
    /\ assignCall[c].pc = "read"
    /\ assignCall'[c] # assignCall[c]

\* C7: assign never chooses a clinician who is inactive, of the wrong type,
\* or whose load is equal to or greater than its capacity when the load is
\* read.
C7_NeverIneligible ==
    [][\A c \in 1..MaxConsultations :
          (AssignReads(c) /\ assignCall'[c].pc = "write")
            => assignCall'[c].chosen \in Eligible]_vars

\* C8: when an eligible clinician exists, the load of the clinician assign
\* chooses is the minimum of the loads of the eligible clinicians.
C8_LeastLoaded ==
    [][\A c \in 1..MaxConsultations :
          (AssignReads(c) /\ Eligible # {}) =>
            /\ assignCall'[c].pc = "write"
            /\ \A q \in Eligible : Load(assignCall'[c].chosen) <= Load(q)
            /\ \E q \in Eligible : Load(assignCall'[c].chosen) = Load(q)]_vars

\* C9: assign is deterministic on ties: from one store state the query of an
\* assign call can return only one clinician.
C9_DeterministicOnTies ==
    \A c \in DOMAIN consultations :
        assignCall[c].pc = "read" => Cardinality(FirstRows) <= 1

\* C10: when no eligible clinician exists, assign fails with the 503 error,
\* leaves no request pending and changes no encounter.
C10_NoCapacityFails ==
    [][\A c \in 1..MaxConsultations :
          (AssignReads(c) /\ Eligible = {}) =>
            /\ assignCall'[c].pc = "idle"
            /\ assignCall'[c].result = "AppError 503"
            /\ consultations' = consultations]_vars

(***************************************************************************)
(* Properties of the encounter lifecycle (under SpecLife and SpecCancel).  *)
(***************************************************************************)
\* The position of a status on the path requested -> matched -> active ->
\* extended -> completed.
Rank(status) ==
    CASE status = "requested" -> 0
      [] status = "matched"   -> 1
      [] status = "active"    -> 2
      [] status = "extended"  -> 3
      [] status = "completed" -> 4
      [] OTHER                -> 5

\* A video call event of consultation c is inserted by this step.
RecordsVideoCall(c) ==
    /\ Len(video_call_events') > Len(video_call_events)
    /\ video_call_events'[Len(video_call_events')].consultation_id = c

\* C11: no step moves an encounter to an earlier status: completed and
\* cancelled are never left, cancelled is entered only from requested or
\* matched, and every other change of status goes forward along requested,
\* matched, active, extended, completed.
C11_StatusOnlyForward ==
    [][\A c \in DOMAIN consultations :
        LET s == consultations[c].status
            t == consultations'[c].status
        IN  /\ s \in {"completed", "cancelled"} => t = s
            /\ t = "cancelled" => s \in {"requested", "matched", "cancelled"}
            /\ (s # "cancelled" /\ t # "cancelled") => Rank(t) >= Rank(s)]_vars

\* C12: a start takes effect (records a video call event of the encounter)
\* only when the encounter is matched and the caller is its assigned
\* clinician, and then the encounter is active with the start instant set:
\* a start that must fail with Conflict records no video call event.
C12_StartOnlyWhenMatched ==
    [][\A c \in DOMAIN consultations :
        RecordsVideoCall(c) =>
            /\ consultations[c].status = "matched"
            /\ consultations'[c].status = "active"
            /\ consultations'[c].started_at = now]_vars

\* C13: an encounter that is not active or extended is not moved to
\* completed by any step, and its end instant, notes and duration are not
\* changed.
C13_EndOnlyFromActive ==
    [][\A c \in DOMAIN consultations :
        consultations[c].status \notin {"active", "extended"} =>
            /\ consultations'[c].status = "completed"
                    => consultations[c].status = "completed"
            /\ consultations'[c].ended_at = consultations[c].ended_at
            /\ consultations'[c].consultation_notes = consultations[c].consultation_notes
            /\ consultations'[c].duration_minutes = consultations[c].duration_minutes]_vars

\* C14: extend is capped at one per encounter: once the extension flag is
\* set no step changes the time-box cap, the step that sets the flag adds
\* exactly 10 minutes to the cap of an active encounter, and the cap never
\* exceeds its initial value plus 10.
C14_ExtendOnce ==
    [][\A c \in DOMAIN consultations :
        LET row == consultations[c]
            new == consultations'[c]
        IN  /\ row.referral_extension_applied
                => new.capacity_cap_minutes = row.capacity_cap_minutes
            /\ (~row.referral_extension_applied /\ new.referral_extension_applied)
                => /\ row.status = "active"
                   /\ new.capacity_cap_minutes = row.capacity_cap_minutes + EXTENSION_MINUTES
            /\ new.capacity_cap_minutes <= DEFAULT_CAP_MINUTES + EXTENSION_MINUTES]_vars

\* C15: an encounter becomes cancelled only from requested or matched: a
\* cancel of an active, extended or completed encounter leaves its status
\* unchanged.
C15_CancelOnlyBeforeActive ==
    [][\A c \in DOMAIN consultations :
        (consultations'[c].status = "cancelled" /\ consultations[c].status # "cancelled")
            => consultations[c].status \in {"requested", "matched"}]_vars

\* A matched encounter was cancelled before it was started.
C15_Witness ==
    \E c \in DOMAIN consultations :
        /\ consultations[c].status = "cancelled"
        /\ consultations[c].provider_id # NULL
        /\ consultations[c].started_at = NULL

(***************************************************************************)
(* Properties of the OTP login (under SpecAuth).                           *)
(***************************************************************************)
\* C16: in every reachable state each phone number has at most one
\* challenge record with status pending.
C16_AtMostOnePending ==
    \A ph \in Phones : Cardinality(PendingRows(ph)) <= 1

\* A second requestOTP has replaced the code of the pending challenge of a
\* phone: the code that was delivered is no longer the one stored.
C16_Witness ==
    \E i \in DOMAIN wa_auth_codes :
        /\ wa_auth_codes[i].status = "pending"
        /\ wa_auth_codes[i].wa_message_id # NULL
        /\ \E m \in DOMAIN whatsapp_messages :
              /\ whatsapp_messages[m].to = wa_auth_codes[i].phone_number
              /\ Hash(whatsapp_messages[m].otp) # wa_auth_codes[i].code_hash

\* C17: a pending challenge with 5 recorded failed attempts is not marked
\* verified by any step: every further verifyOTP call for it is rejected.
C17_LockedAfterFive ==
    [][\A i \in DOMAIN wa_auth_codes :
        (wa_auth_codes[i].status = "pending" /\ wa_auth_codes[i].attempts >= MAX_ATTEMPTS)
            => wa_auth_codes'[i].status # "verified"]_vars

\* The requestOTP call of caller k performs the step that leaves position pc.
RequestLeaves(k, pc) == otpCall[k].pc = pc /\ otpCall'[k].pc # pc

\* C18: a requestOTP call is rejected with 429 exactly when the phone has a
\* pending challenge with 5 or more attempts that is not past its expiry,
\* and the rejection changes no challenge and sends nothing; every other
\* call stores a pending challenge of the phone with the hash of its fresh
\* code, an expiry 5 minutes after the call and 0 attempts.
C18_RequestStoresOrRejects ==
    [][\A k \in Callers :
        LET locked(ph) == \E i \in PendingRows(ph) :
                            /\ wa_auth_codes[i].attempts >= MAX_ATTEMPTS
                            /\ now <= wa_auth_codes[i].ttl_expires_at
        IN  /\ RequestLeaves(k, "idle") =>
                /\ (otpCall'[k].result = "AppError 429") <=> locked(otpCall'[k].phone)
                /\ otpCall'[k].result = "AppError 429" =>
                        /\ wa_auth_codes' = wa_auth_codes
                        /\ whatsapp_messages' = whatsapp_messages
            /\ RequestLeaves(k, "insert") =>
                \E i \in DOMAIN wa_auth_codes' :
                    wa_auth_codes'[i] =
                        [NewAuthCode(otpCall[k].phone, Hash(otpCall[k].otp),
                                     otpCall[k].expiresAt)
                            EXCEPT !.wa_message_id = wa_auth_codes'[i].wa_message_id]]_vars

\* The verifyOTP call of caller k performs the step that leaves position pc.
LoginLeaves(k, pc) == loginCall[k].pc = pc /\ loginCall'[k].pc # pc

\* C19: a verifyOTP call with the correct code on a pending challenge that
\* is not past its expiry marks the challenge verified and returns a token
\* for the one user of the phone: a new user with role patient when the
\* phone had none, otherwise the existing user with its role unchanged.
C19_CorrectCodeLogsIn ==
    [][\A k \in Callers :
        LET rec == loginCall[k].otpRecord
            ph  == loginCall[k].phone
        IN  /\ (LoginLeaves(k, "decide") /\ now <= rec.ttl_expires_at
                    /\ Compare(loginCall[k].code, rec.code_hash))
                => /\ wa_auth_codes'[rec.id].status = "verified"
                   /\ loginCall'[k].pc = "user"
            /\ LoginLeaves(k, "login")
                => /\ loginCall'[k].result.status = "token"
                   /\ {u \in DOMAIN users' : users'[u].phone_number = ph}
                        = {loginCall'[k].result.userId}
                   /\ IF UsersOf(ph) = {}
                      THEN loginCall'[k].result.role = "patient"
                      ELSE /\ loginCall'[k].result.userId \in UsersOf(ph)
                           /\ loginCall'[k].result.role
                                = users[loginCall'[k].result.userId].role
                           /\ users'[loginCall'[k].result.userId].role
                                = users[loginCall'[k].result.userId].role]_vars

(***************************************************************************)
(* Properties of a redeem call (under SpecRx).                             *)
(***************************************************************************)
\* C20: the step of a redeem call that makes it succeed appends exactly one
\* claim, in status ready, for the prescription and the pharmacy of the
\* call, and changes no other table; a redeem call that returns invalid
\* adds no claim and changes no prescription.
C20_RedeemFrame ==
    [][\A ph \in Pharmacies :
        /\ (verifyCall[ph].pc = "insert" /\ verifyCall'[ph].pc = "returned")
            => /\ verifyCall'[ph].result.valid
               /\ Len(pharmacy_claims') = Len(pharmacy_claims) + 1
               /\ SubSeq(pharmacy_claims', 1, Len(pharmacy_claims)) = pharmacy_claims
               /\ LET c == pharmacy_claims'[Len(pharmacy_claims')]
                  IN  /\ c.prescription_id = verifyCall[ph].rx
                      /\ c.pharmacy_id = ph
                      /\ c.status = "ready"
               /\ UNCHANGED <<prescriptions, prescription_items, audit_events>>
        /\ (verifyCall[ph].pc = "idle" /\ verifyCall'[ph].pc = "returned")
            => /\ ~verifyCall'[ph].result.valid
               /\ UNCHANGED <<pharmacy_claims, prescriptions, prescription_items,
                              audit_events>>
        /\ (verifyCall[ph].pc = "idle" /\ verifyCall'[ph].pc = "insert")
            => UNCHANGED <<pharmacy_claims, prescriptions, prescription_items,
                           audit_events>>]_vars

\* One pharmacy has an accepted redeem call and its ready claim, and the
\* other was answered invalid for a prescription that exists.
C20_Witness ==
    \E ph \in Pharmacies, other \in Pharmacies :
        /\ verifyCall[ph].pc = "returned"
        /\ verifyCall[ph].result.valid
        /\ \E i \in DOMAIN pharmacy_claims :
              /\ pharmacy_claims[i].prescription_id = verifyCall[ph].rx
              /\ pharmacy_claims[i].pharmacy_id = ph
              /\ pharmacy_claims[i].status = "ready"
        /\ verifyCall[other].pc = "returned"
        /\ ~verifyCall[other].result.valid
        /\ verifyCall[other].rx # NULL

(***************************************************************************)
(* The decision of a redeem call (under SpecRx).                           *)
(***************************************************************************)
\* The decision table of redeem for code q at instant t: invalid_code if no
\* prescription carries the code, else disabled if the flag is false, else
\* expired unless t < expiry, else already_used if fulfilled, else success.
RedeemTable(q, t) ==
    IF RowsByQR(q) = {} THEN [valid |-> FALSE, reason |-> "invalid_code"]
    ELSE LET p == prescriptions[CHOOSE r \in RowsByQR(q) : TRUE]
         IN  IF ~p.qr_enabled THEN [valid |-> FALSE, reason |-> "disabled"]
             ELSE IF ~(t < p.expires_at) THEN [valid |-> FALSE, reason |-> "expired"]
             ELSE IF p.status = "fulfilled"
                  THEN [valid |-> FALSE, reason |-> "already_used"]
             ELSE [valid |-> TRUE, reason |-> "none"]

\* The reason of the table that a reason of verifyPrescriptionQR stands for:
\* the code words the refusal of a disabled code `pdf_downloaded`.
TableReason(reason) == IF reason = "pdf_downloaded" THEN "disabled" ELSE reason

\* C21: the outcome a redeem call decides at its SELECT is the outcome of
\* the decision table for its code, the flag, the clock and the status; in
\* particular a call at exactly the expiry instant is answered expired.
C21_DecisionTable ==
    [][\A ph \in Pharmacies :
        (verifyCall[ph].pc = "idle" /\ verifyCall'[ph].pc # "idle")
            => LET out == verifyCall'[ph].result
                   row == RedeemTable(verifyCall'[ph].qr, now)
               IN  /\ out.valid = row.valid
                   /\ TableReason(out.reason) = row.reason]_vars

(***************************************************************************)
(* Units of work: fulfilment and issue are all-or-nothing.                 *)
(***************************************************************************)
RxTablesUnchanged ==
    UNCHANGED <<prescriptions, prescription_items, pharmacy_claims, audit_events>>

\* Client k's unit of work of kind op takes a step that is not its commit.
StepsWithoutCommit(k, op) ==
    /\ txn[k].op = op
    /\ txn'[k] # txn[k]
    /\ txn'[k].outcome # "resolved"

\* In the state a step leads to, prescription rx is fulfilled and every
\* claim its fulfilling pharmacy holds on it is dispensed.
FulfilledWithClaims(rx) ==
    /\ prescriptions'[rx].status = "fulfilled"
    /\ \A i \in DOMAIN pharmacy_claims :
          (/\ pharmacy_claims[i].prescription_id = rx
           /\ pharmacy_claims[i].pharmacy_id = prescriptions'[rx].fulfilling_pharmacy_id)
            => pharmacy_claims'[i].status = "dispensed"

ItemsOf(rx) ==
    SelectSeq(prescription_items, LAMBDA i : i.prescription_id = rx)

\* Every header has all its line items and its creation audit record, and
\* every line item and every creation audit record has its header.
HeaderWithItems ==
    /\ \A rx \in DOMAIN prescriptions :
          /\ ItemsOf(rx) = ItemRows(rx, prescriptions[rx].prescription_data)
          /\ AuditCount("prescription.created", rx) = 1
    /\ \A i \in DOMAIN prescription_items :
          prescription_items[i].prescription_id \in DOMAIN prescriptions
    /\ \A e \in BagToSet(audit_events) :
          e.event_type = "prescription.created" => e.resource_id \in DOMAIN prescriptions

\* C23: issue is all-or-nothing.  In every state a step leads to, a header
\* exists exactly with all of its line items and its creation audit record;
\* a step of an issue unit of work that is not its commit, a failed write of
\* a line item or of a later statement included, changes no table.
C23_IssueAllOrNothing ==
    [][/\ HeaderWithItems'
       /\ \A k \in Clients : StepsWithoutCommit(k, "create") => RxTablesUnchanged
      ]_vars

\* An issue unit of work has failed after its header and a line item were
\* written, and the tables hold no header and no line item.
C23_Witness ==
    /\ prescriptions = <<>>
    /\ prescription_items = <<>>
    /\ \E k \in Clients :
          /\ txn[k].op = "create"
          /\ txn[k].pc = "release"
          /\ txn[k].outcome = "store error"
          /\ txn[k].step >= 4

\* C24: a step that creates a prescription creates it for an encounter that
\* has reached active, extended or completed.
C24_IssueNeedsStartedEncounter ==
    [][Len(prescriptions') > Len(prescriptions)
        => consultations[prescriptions'[Len(prescriptions')].consultation_id].status
                \in {"active", "extended", "completed"}]_vars

(***************************************************************************)
(* The view a pharmacy is given.                                           *)
(***************************************************************************)
\* The providers whose id reads as p's in the part the view shows.
SamePartial(p) ==
    {q \in ProviderIds :
        Substring(UuidText(q), DoctorIdLen) = Substring(UuidText(p), DoctorIdLen)}

\* C25: the view of a successful redeem has the prescription id, the line
\* items, the issue date and the partial clinician identity and nothing
\* else, and it is the view the same call yields on every store that differs
\* in the patients' names or phone numbers, in the patient of the
\* prescription, or in the clinician's id outside the part shown.
C25_ViewIsMasked ==
    \A ph \in Pharmacies :
        views[ph] # NoView =>
            LET rx == views[ph].id
            IN  /\ DOMAIN views[ph] =
                        {"id", "medications", "prescribing_doctor", "issue_date"}
                /\ \A i \in DOMAIN views[ph].medications :
                        DOMAIN views[ph].medications[i] = {"drug_name"}
                /\ Len(views[ph].prescribing_doctor) = DoctorIdLen + 1
                /\ \A U \in NamedUsers, pid \in Patients,
                      prov \in SamePartial(prescriptions[rx].prescribing_provider_id) :
                        RedeemView(U,
                                   [prescriptions EXCEPT
                                        ![rx].patient_id = pid,
                                        ![rx].prescribing_provider_id = prov],
                                   prescription_items, rx) = views[ph]

\* A pharmacy holds the view of a prescription of two line items whose
\* clinician shares the shown part of the id with another provider.
C25_Witness ==
    \E ph \in Pharmacies :
        /\ views[ph] # NoView
        /\ Len(views[ph].medications) = 2
        /\ SamePartial(prescriptions[views[ph].id].prescribing_provider_id)
                # {prescriptions[views[ph].id].prescribing_provider_id}

(***************************************************************************)
(* Audit records, the start notification, unknown identifiers.             *)
(***************************************************************************)
\* C26: every step that changes a prescription, a line item or a claim is a
\* successful state-changing operation and appends exactly one audit record.
C26_OneAuditPerChange ==
    [][<<prescriptions, prescription_items, pharmacy_claims>>' #
       <<prescriptions, prescription_items, pharmacy_claims>>
            => BagCardinality(audit_events') = BagCardinality(audit_events) + 1]_vars

\* C27: when start makes an encounter active and the video-link
\* notification is not delivered, the encounter is active with its start
\* instant and start returns success with a warning.
C27_NotifyFailureIsWarning ==
    [][\A c \in DOMAIN consultations :
          (/\ consultations[c].status = "matched"
           /\ consultations'[c].status = "active"
           /\ whatsapp_messages' = whatsapp_messages)
            => /\ consultations'[c].started_at = now
               /\ startReturn'.outcome = "resolved"
               /\ startReturn'.warning]_vars

\* C28: a fulfill call on a prescription id that no row carries leaves the
\* audit log as it is.
C28_UnknownIdChangesNothing ==
    [][\A rx \in RxIds :
          rx \notin DOMAIN prescriptions
            => AuditCount("prescription.fulfilled", rx)' =
               AuditCount("prescription.fulfilled", rx)]_vars

(***************************************************************************)
(* Revocation.                                                             *)
(***************************************************************************)
\* C29: revoke is advisory.  A step that logs a logout adds that one audit
\* record and changes nothing else, and in every state a step leads to,
\* every token issued that is not past its expiry verifies, whatever was
\* revoked.
C29_RevokeIsAdvisory ==
    [][/\ Logouts' # Logouts
            => /\ \E e \in Logouts' : audit_events' = audit_events (+) SetToBag({e})
               /\ UNCHANGED <<sessions, callVars, authVars, now, encVars,
                              prescriptions, prescription_items, pharmacy_claims,
                              verifyCall, txn, views, startReturn>>
       /\ \A token \in sessions' :
            now' < token.exp => VerifyToken(token, now)' = Payload(token)
      ]_vars

\* A user was logged out after a token was issued to them, and the token
\* is not past its expiry.
C29_Witness ==
    \E token \in sessions, e \in Logouts :
        /\ e.user_id = token.userId
        /\ token.iat < e.timestamp
        /\ now < token.exp

(***************************************************************************)
(* Concurrent assignment.                                                  *)
(***************************************************************************)
\* C30: the decision of an assign call is atomic: between the read of the
\* loads by one call and its write, no other assign call has read the loads.
C30_AssignDecisionAtomic ==
    \A c1, c2 \in DOMAIN consultations :
        (assignCall[c1].pc = "write" /\ assignCall[c2].pc = "write") => c1 = c2

(***************************************************************************)
(* Challenges under interleaving.                                          *)
(***************************************************************************)
\* Call k of verifyOTP takes its step of tests and ends with status s.
VerifyDecides(k, s) ==
    /\ loginCall[k].pc = "decide"
    /\ loginCall'[k].pc = "returned"
    /\ loginCall'[k].result.status = s

\* C31: a verifyChallenge call that returns InvalidCode adds one attempt to
\* the challenge whose code it compared: the row it increments still carries
\* the hash the call has read.
C31_AttemptChargedToComparedChallenge ==
    [][\A k \in Callers :
          VerifyDecides(k, "AppError 401 invalid")
            => LET rec == loginCall[k].otpRecord
               IN  /\ wa_auth_codes[rec.id].code_hash = rec.code_hash
                   /\ wa_auth_codes'[rec.id].attempts =
                        wa_auth_codes[rec.id].attempts + 1]_vars

\* C32: a challenge leaves `pending` for `expired` only by a verifyChallenge
\* call made after its expiry instant; the call fails with Expired and the
\* attempt counter is as before.
C32_ExpiredOnlyAfterExpiry ==
    [][\A i \in DOMAIN wa_auth_codes :
          (wa_auth_codes[i].status = "pending" /\ wa_auth_codes'[i].status = "expired")
            => /\ now > wa_auth_codes[i].ttl_expires_at
               /\ wa_auth_codes'[i].attempts = wa_auth_codes[i].attempts
               /\ \E k \in Callers : VerifyDecides(k, "AppError 401 expired")]_vars

\* C33: no two verifyChallenge calls obtain a credential from the same
\* challenge.
C33_SingleUse ==
    \A j, k \in Callers :
        (/\ loginCall[j].pc = "returned" /\ loginCall[j].result.status = "token"
         /\ loginCall[k].pc = "returned" /\ loginCall[k].result.status = "token"
         /\ loginCall[j].otpRecord = loginCall[k].otpRecord)
            => j = k

(***************************************************************************)
(* Redemption and fulfilment in sequence and under interleaving.           *)
(***************************************************************************)
\* C34: in every reachable state a fulfilled prescription has a dispensed
\* claim that belongs to its fulfilling pharmacy.
C34_FulfilledAfterRedeem ==
    \A rx \in DOMAIN prescriptions :
        prescriptions[rx].status = "fulfilled"
            => \E i \in DispensedClaimsOf(rx) :
                  pharmacy_claims[i].pharmacy_id = prescriptions[rx].fulfilling_pharmacy_id

\* C35: a step that writes a claim in `ready` writes it for a prescription
\* whose redemption-enabled flag is true and whose status is not fulfilled
\* at that moment.
C35_ClaimWrittenOnRedeemable ==
    [][Len(pharmacy_claims') > Len(pharmacy_claims)
        => LET claim == pharmacy_claims'[Len(pharmacy_claims')]
           IN  /\ prescriptions[claim.prescription_id].qr_enabled
               /\ prescriptions[claim.prescription_id].status # "fulfilled"]_vars

(***************************************************************************)
(* The download as a unit of work.                                         *)
(***************************************************************************)
\* The flag, the document URL or the download audit records of prescription
\* rx change in this step.
DownloadStateChanges(rx) ==
    \/ prescriptions'[rx].qr_enabled # prescriptions[rx].qr_enabled
    \/ prescriptions'[rx].pdf_url # prescriptions[rx].pdf_url
    \/ AuditCount("prescription.pdf_downloaded", rx)' #
       AuditCount("prescription.pdf_downloaded", rx)

\* C36: a download changes state only on full success.  A step of a
\* download unit of work that is not its commit (the 404 for another
\* patient's prescription, a failed renderer or upload, a failed statement
\* or COMMIT) changes no table; a call for a prescription that is not the
\* caller's fails; the flag, the URL and the download audit records change
\* only in the commit of a download by the prescription's patient; and the
\* document is returned only when the committed flag is false.
C36_DownloadOnlyOnSuccess ==
    [][/\ \A k \in Clients : StepsWithoutCommit(k, "download") => RxTablesUnchanged
       /\ \A k \in Clients :
            (/\ txn[k].op = "download" /\ txn[k].pc = "callback" /\ txn[k].step = 1
             /\ txn'[k] # txn[k]
             /\ \/ txn[k].rx \notin DOMAIN prescriptions
                \/ prescriptions[txn[k].rx].patient_id # txn[k].who)
                => txn'[k].pc = "rollback"
       /\ \A rx \in DOMAIN prescriptions :
            DownloadStateChanges(rx)
                => \E k \in Clients :
                      /\ txn[k].op = "download" /\ txn[k].rx = rx
                      /\ txn[k].pc = "commit" /\ txn'[k].outcome = "resolved"
                      /\ prescriptions[rx].patient_id = txn[k].who
       /\ \A k \in Clients, rx \in RxIds :
            (/\ txn'[k].op = "download" /\ txn'[k].outcome = "resolved"
             /\ txn'[k].rx = rx)
                => /\ ~prescriptions'[rx].qr_enabled
                   /\ prescriptions'[rx].pdf_url # NULL
                   /\ AuditCount("prescription.pdf_downloaded", rx)' >= 1
      ]_vars

\* The download of a patient's own prescription has failed after the
\* document was rendered, and the prescription has its flag set, no URL and
\* no download audit record.
C36_Witness ==
    \E k \in Clients :
        /\ txn[k].op = "download"
        /\ txn[k].pc = "release"
        /\ txn[k].outcome = "store error"
        /\ txn[k].step >= 3
        /\ txn[k].rx \in DOMAIN prescriptions
        /\ prescriptions[txn[k].rx].qr_enabled
        /\ prescriptions[txn[k].rx].pdf_url = NULL
        /\ AuditCount("prescription.pdf_downloaded", txn[k].rx) = 0

(***************************************************************************)
(* Encounters when the calls are made one at a time (under SpecSeq).       *)
(***************************************************************************)
\* C37: with no call in flight, no clinician has more encounters in matched,
\* active or extended than its capacity.
C37_LoadWithinCapacity ==
    Quiet => \A p \in DOMAIN providers :
                Load(p) <= providers[p].max_concurrent_sessions

\* C38: an encounter in active, extended or completed has a clinician and a
\* start instant, and an encounter in requested has no clinician.
C38_StartedHasClinicianAndStart ==
    \A c \in DOMAIN consultations :
        /\ consultations[c].status \in {"active", "extended", "completed"}
            => /\ consultations[c].provider_id # NULL
               /\ consultations[c].started_at # NULL
        /\ consultations[c].status = "requested"
            => consultations[c].provider_id = NULL

(***************************************************************************)
(* A request whose delivery fails.                                         *)
(***************************************************************************)
\* C39: a requestChallenge call that fails at the dispatcher leaves the
\* challenge of the phone as it was: the code of every pending challenge
\* was delivered to its phone, unless the call that stored it is still
\* between its store and its delivery.
C39_PendingCodeWasDelivered ==
    \A i \in DOMAIN wa_auth_codes :
        wa_auth_codes[i].status = "pending"
            => \/ \E n \in DOMAIN whatsapp_messages :
                    /\ whatsapp_messages[n].to = wa_auth_codes[i].phone_number
                    /\ Hash(whatsapp_messages[n].otp) = wa_auth_codes[i].code_hash
               \/ \E k \in Callers :
                    /\ otpCall[k].pc = "send"
                    /\ otpCall[k].phone = wa_auth_codes[i].phone_number
                    /\ Hash(otpCall[k].otp) = wa_auth_codes[i].code_hash

(***************************************************************************)
(* The statements of Database.transaction.                                 *)
(***************************************************************************)
\* The statements of a unit that end it.
Ending(u) == SelectSeq(u.issued, LAMBDA s : s \in {"COMMIT", "ROLLBACK", "ROLLBACK raised"})

\* The unit of a client whose transaction call is over: one ending
\* statement, a COMMIT exactly when the callback returned and COMMIT did
\* not raise, a ROLLBACK after a BEGIN, a callback or a COMMIT that raised,
\* and one release.
EndedOnce(u) ==
    /\ u.released = 1
    /\ Len(Ending(u)) = 1
    /\ Ending(u)[1] = u.issued[Len(u.issued)]
    /\ Ending(u)[1] = "COMMIT" <=> u.outcome = "resolved"
    /\ u.outcome = "resolved" => u.issued = <<"BEGIN", "COMMIT">>
    /\ u.outcome # "resolved" =>
            u.issued \in { <<"BEGIN raised", e>> : e \in {"ROLLBACK", "ROLLBACK raised"} }
                  \cup { <<"BEGIN", e>> : e \in {"ROLLBACK", "ROLLBACK raised"} }
                  \cup { <<"BEGIN", "COMMIT raised", e>> : e \in {"ROLLBACK", "ROLLBACK raised"} }

\* C40: Database.transaction ends every unit of work in a COMMIT or in a
\* ROLLBACK, never both and never neither, and releases the client exactly
\* once: no client is released before the ending statement, COMMIT is
\* issued only by a step that follows the return of the callback, and a
\* finished call has issued ROLLBACK exactly when BEGIN, the callback or
\* COMMIT raised, with the client released also after a ROLLBACK that
\* raised.
C40_OneEndingOneRelease ==
    /\ [](\A k \in DOMAIN txn :
            /\ txn[k].pc = "done" => EndedOnce(txn[k])
            /\ txn[k].pc \notin {"done", "idle"} => txn[k].released = 0
            /\ txn[k].pc = "release" => Len(Ending(txn[k])) = 1
            /\ txn[k].pc \in {"begin", "callback", "commit", "rollback"}
                    => Len(Ending(txn[k])) = 0)
    /\ [][\A k \in DOMAIN txn :
            /\ (Len(txn'[k].issued) > Len(txn[k].issued)
                    /\ txn'[k].issued[Len(txn'[k].issued)] \in {"COMMIT", "COMMIT raised"})
                => txn[k].pc = "commit"
            /\ (txn'[k].pc = "commit" /\ txn[k].pc # "commit")
                => (txn[k].pc = "callback" /\ txn'[k].outcome = "none")
            /\ txn'[k].released # txn[k].released
                => \/ txn[k].pc = "release" /\ txn'[k].released = txn[k].released + 1
                   \/ txn[k].pc = "done" /\ txn'[k].pc = "idle"]_vars

\* A call is over whose COMMIT raised and whose ROLLBACK raised too, with
\* its client released.
C40_Witness ==
    \E k \in DOMAIN txn :
        /\ txn[k].pc = "done"
        /\ txn[k].issued = <<"BEGIN", "COMMIT raised", "ROLLBACK raised">>
        /\ txn[k].released = 1

====
